---- MODULE Spec2Model ----
(***************************************************************************)
(* PhoneSSH (psh): the agent's session manager (PhoneSSHService,           *)
(* KeyAuthManager, CommandRouter, protocol helpers) and the CLI transport  *)
(* client (client.go), modelled as one state machine.                      *)
(*                                                                         *)
(* A connection is identified with its session id: handleClient draws the  *)
(* id from a random UUID, so two live connections never share one.         *)
(* Tokens are numbers; generateToken draws 256 random bits, modelled as    *)
(* the least value that no party holds at that moment.                     *)
(*                                                                         *)
(* Granularity: one step per access of a handler to state shared with the  *)
(* main thread or other handlers (the stored token, the registry, a        *)
(* socket) and one per blocking read; the statements in between are local  *)
(* to the handler and belong to the step that precedes them.               *)
(***************************************************************************)
EXTENDS Integers, Sequences, FiniteSets, TLC

\* ---- bounds ------------------------------------------------------------
NumConns == 2
MaxCmds == 2
MaxRotations == 1
MaxCloses == 2
MaxExchanges == 2
MaxTurns == 44
MaxLines == 3
MaxArgs == 3
MaxFaults == 1
MaxStarts == 2
MaxAdds == 3

Conns == 1..NumConns

\* the start requests that reach the service after the one that created it
Starts == 1..MaxStarts

\* ---- tokens (KeyAuthManager) --------------------------------------------
NoToken == -1
BadToken == -2
LegacyToken == 0
FirstToken == 1

\* stored.any { it == '+' || it == '/' || it == '=' }
IsLegacyFormat(t) == t = LegacyToken

\* ---- wire lines ---------------------------------------------------------
CmdIds == {1, 2}
Registered == {"ls"}
CmdNames == Registered \cup {"frobnicate"}

Line(k, t, i, n) == [kind |-> k, token |-> t, id |-> i, cmd |-> n]
EOF == Line("eof", NoToken, 0, "")
Garbage == Line("garbage", NoToken, 0, "")
OtherType == Line("other", NoToken, 0, "")
AuthLine(t) == Line("auth", t, 0, "")
AuthNoToken == Line("auth", NoToken, 0, "")
CmdLine(i, n) == Line("cmd", NoToken, i, n)
CmdMalformed == Line("cmd", NoToken, 0, "")
NoCmd == Line("none", NoToken, 0, "")

\* String.msgType(): the "type" member of the line, null when the line is
\* not a JSON object
msgType(l) == IF l.kind \in {"garbage", "eof"} THEN "null" ELSE l.kind

\* resultOk / resultErr
resultOk(id) == [type |-> "result", id |-> id, ok |-> TRUE, error |-> <<>>]
resultErr(id, error) == [type |-> "result", id |-> id, ok |-> FALSE, error |-> error]

NoMsg == [type |-> "none", id |-> 0, ok |-> FALSE, error |-> <<>>]
HelloMsg == [type |-> "hello", id |-> 0, ok |-> TRUE, error |-> <<>>]
AuthOkMsg == [type |-> "auth_ok", id |-> 0, ok |-> TRUE, error |-> <<>>]
AuthFailMsg(e) == [type |-> "auth_fail", id |-> 0, ok |-> FALSE, error |-> <<e>>]

VARIABLES
    stored,       \* prefs[KEY_TOKEN]
    sessions,     \* PhoneSSHService.sessions (the registry), its key set
    scopeActive,  \* scope.isActive
    rotations,    \* completed ACTION_ROTATE_TOKEN requests
    mainPc,       \* position of the main thread inside onStartCommand
    rotSnap,      \* sessions registered when the running rotation started
    pc,           \* position of each connection's handleClient
    sockOpen,     \* !socket.isClosed, per connection
    presented,    \* authMsg.token, per connection (in scope inside the try)
    cur,          \* cmd, the Cmd parsed by the running loop iteration
    out,          \* the lines the latest step wrote, as <<connection, line>>
    ran,          \* the handlers the latest step invoked: <<name, how it ended>>
    nPeers,       \* how many peers connect to the agent
    rawCmds,      \* the Cmd lines an arbitrary peer may write
    cConn,        \* the connection whose peer's lines are queued in inq (0: none)
    devTok,       \* Client.device.Token
    cpc,          \* position of the CLI client
    inq,          \* lines written by the CLI client, not yet read by the agent
    a2c,          \* lines written by the agent, not yet read by the CLI client
    wire,         \* every line written on the CLI client's connection, in order
    cSentId,      \* id of the Cmd written by the running Client.Run
    cNextId,      \* the next value of time.Now().UnixNano()
    cRet,         \* what the last Client.Run returned
    closes,       \* calls of Client.Close so far
    file,         \* the context file ai_context.json
    file0,        \* the context file when the latest operation on it started
    apc,          \* position of runAgenticLoop
    noContext,    \* runAgenticLoop's parameter (--no-context)
    history,      \* runAgenticLoop: history
    userMsg,      \* runAgenticLoop: userMsg
    callMessages, \* runAgenticLoop: callMessages
    round,        \* runAgenticLoop: round
    resp,         \* runAgenticLoop: resp, the text of the latest reply
    finalResponse, \* runAgenticLoop: finalResponse
    aiRet,        \* what the latest runAgenticLoop returned
    nCalls,       \* calls of callClaude by the running invocation
    nRuns,        \* commands sent by the running invocation
    seq,          \* turns persisted so far; labels the next query and reply
    replyKinds,   \* what the language model may answer
    captures,     \* whether the device may deliver / refuse a screenshot
    turnLimit,    \* no invocation starts once seq + 2 exceeds it
    ctxRet,        \* what the latest direct call of the context store returned
    commands, \* executeCommands: commands, the lines of the reply
    ci, \* executeCommands: index of the line the loop is at
    sentLog, \* the lines handed to Client.Run so far, by index
    results, \* how each of these Client.Run calls ended
    screenshotB64, \* executeCommands: screenshotB64
    apiKey, \* runAI: apiKey, what anthropicKey() returned
    cliCalls, \* runs of the external claude tool by the running invocation
    rawCmd, \* executeCommands: rawCmd, a line as a sequence of characters
    args0, \* the words and quoted spans rawCmd was written from, after psh <cmd>
    parts, \* executeCommands: parts
    pureArgs, \* executeCommands: pureArgs
    flags, \* executeCommands: flags
    tpc, \* position of the loop body on this line
    pairURL, \* parsePairURL: raw, as url.Parse reads it
    pairRet, \* what parsePairURL returned
    goCmd, \* the CmdMsg value handed to Client.writeLine
    cmdLine, \* the JSON line written for it
    ktCmd, \* the CmdMsg value parseCmdMsg returns on the agent
    srvPc, \* position of runServer
    portBound, \* the ServerSocket held in serverSocket is open and bound to PORT
    fault, \* the operating system refuses new sockets
    faults, \* how often this fault has set in
    monitor, \* the thread inside a @Synchronized method of KeyAuthManager
    kpc, \* position of each thread inside KeyAuthManager
    kStored, \* getOrCreateToken / verifyToken: stored, per thread
    kRet, \* what verifyToken returned to each thread
    launched, \* position of the runServer coroutine each start request launched
    cfg, \* the Config in memory: devices and default_device
    nAdds, \* how many AddOrUpdateDevice calls it has received
    getRet \* what the last GetDevice call returned

vars == <<rotations, stored, sessions, scopeActive, mainPc, rotSnap,
          pc, sockOpen, presented, cur, out, ran, nPeers, rawCmds, cConn,
          devTok,
          cpc, inq, a2c, wire, cSentId, cNextId, cRet, closes,
          file, file0, apc, noContext, history, userMsg, callMessages, round,
          resp, finalResponse, aiRet, nCalls, nRuns, seq, replyKinds,
          captures, turnLimit, ctxRet,
          commands, ci, sentLog, results, screenshotB64,
          apiKey, cliCalls,
          rawCmd, args0, parts, pureArgs, flags, tpc,
          pairURL, pairRet,
          goCmd, cmdLine, ktCmd,
          srvPc, portBound, fault, faults,
          monitor, kpc, kStored, kRet,
          launched,
          cfg, nAdds, getRet>>

\* one run of executeCommands over the lines of a reply
toolVars == <<commands, ci, sentLog, results, screenshotB64>>

\* KeyAuthManager's monitor and the calls running inside the class
monVars == <<monitor, kpc, kStored, kRet>>

\* the device registry of the client (Config)
cfgVars == <<cfg, nAdds, getRet>>

\* the accept loop (runServer) and the fault it may meet
srvVars == <<srvPc, portBound, fault, faults, launched>>

\* the inputs and results of the functions checked on their own
pureVars == <<rawCmd, args0, parts, pureArgs, flags, tpc, pairURL, pairRet,
              goCmd, cmdLine, ktCmd>>

\* the model credential and the use of the fallback tool
keyVars == <<apiKey, cliCalls>>

\* the orchestrator (ai.go) and the context file
aiVars == <<file, file0, apc, noContext, history, userMsg, callMessages, round,
            resp, finalResponse, aiRet, nCalls, nRuns, seq, replyKinds,
            captures, turnLimit, ctxRet, toolVars, keyVars, pureVars, srvVars, monVars, cfgVars>>

cliVars == <<nPeers, rawCmds, cConn, devTok, cpc, cSentId, cNextId, cRet, closes,
             aiVars>>

NoRet == [sent |-> 0, err |-> "none", result |-> NoMsg]

InitAgent ==
    /\ rotations = 0
    /\ sessions = {}
    /\ scopeActive = TRUE
    /\ mainPc = "idle"
    /\ rotSnap = {}
    /\ pc = [c \in Conns |-> "idle"]
    /\ sockOpen = [c \in Conns |-> FALSE]
    /\ presented = [c \in Conns |-> NoToken]
    /\ cur = [c \in Conns |-> NoCmd]
    /\ out = <<>>
    /\ ran = {}

\* a fresh install: no token is stored until the first getOrCreateToken
InitFresh ==
    stored = NoToken

\* a paired agent: the token shown for pairing is stored
InitPaired ==
    stored = FirstToken

\* ---- conversation turns and the context file (ai.go) ---------------------
\* for round := 0; round < 3; round++
Rounds == 3
\* if len(updated) > 40 { updated = updated[len(updated)-40:] }
ContextCap == 40

\* strings are labelled by numbers: the empty string, the reply
\* "psh screenshot", saveContext's "[screenshot]", a base64 PNG; positive
\* labels are the queries and the replies that hold commands
EmptyText == 0
ShotText == -1
ScreenshotPlaceholder == -2
ImageData == -3

\* claudeMsg.Content: a string, or []contentBlock holding an image
Text(n) == [kind |-> "text", id |-> n]
Blocks == [kind |-> "blocks", id |-> ImageData]
claudeMsg(r, c) == [role |-> r, content |-> c]

\* contextSavedMsg: the content is a string
contextSavedMsg(r, n) == [role |-> r, content |-> n]

\* the context file: absent, holding a JSON array of contextSavedMsg, or
\* holding something json.Unmarshal rejects
AbsentFile == [st |-> "absent", msgs |-> <<>>]
MalformedFile == [st |-> "malformed", msgs |-> <<>>]
SavedFile(msgs) == [st |-> "ok", msgs |-> msgs]

\* the file n earlier turns leave: queries and replies labelled 1..n
RoleAt(i) == IF i % 2 = 1 THEN "user" ELSE "assistant"
FileOf(n) == SavedFile([i \in 1..n |-> contextSavedMsg(RoleAt(i), i)])

\* loadContext(): (msgs, err)
loadContext(f) ==
    IF f.st = "absent" THEN [msgs |-> <<>>, err |-> "none"]
    ELSE IF f.st = "malformed" THEN [msgs |-> <<>>, err |-> "unmarshal"]
    ELSE [msgs |-> [i \in DOMAIN f.msgs |->
                       claudeMsg(f.msgs[i].role, Text(f.msgs[i].content))],
          err |-> "none"]

\* saveContext, lines 394-402: the switch on the type of m.Content
savedContent(c) ==
    IF c.kind = "text" THEN c.id ELSE ScreenshotPlaceholder

\* a saveContext that writes the content as it is
saveContext_Raw(msgs) ==
    SavedFile([i \in DOMAIN msgs |->
                  contextSavedMsg(msgs[i].role, msgs[i].content.id)])

\* saveContext(msgs): the file it writes
saveContext(msgs) ==
    SavedFile([i \in DOMAIN msgs |->
                  contextSavedMsg(msgs[i].role, savedContent(msgs[i].content))])

\* a clearContext that returns the error of removing a missing file
clearContext_Strict(f) ==
    [file |-> AbsentFile,
     err |-> IF f.st = "absent" THEN "not exist" ELSE "none"]

\* clearContext(): os.Remove, a missing file is not an error
clearContext(f) == [file |-> AbsentFile, err |-> "none"]

\* updated[len(updated)-40:] when len(updated) > 40
LastTurns(u) ==
    IF Len(u) > ContextCap
       THEN SubSeq(u, Len(u) - ContextCap + 1, Len(u))
       ELSE u

NoStoreCall == [op |-> "none", err |-> "none", msgs |-> <<>>]

\* the threads that call KeyAuthManager: the handlers and the main thread
MainThread == 0
Threads == Conns \cup {MainThread}

\* nobody holds KeyAuthManager's monitor
NoThread == -1

\* no call of KeyAuthManager is running
InitNoKeyCall ==
    /\ monitor = NoThread
    /\ kpc = [t \in Threads |-> "idle"]
    /\ kStored = [t \in Threads |-> NoToken]
    /\ kRet = [t \in Threads |-> "none"]

\* the runServer launched by the first start request has bound the port and
\* waits in accept(); no other start request has arrived
InitServing ==
    /\ srvPc = "accept"
    /\ portBound = TRUE
    /\ fault = FALSE
    /\ faults = 0
    /\ launched = [k \in Starts |-> "none"]

\* no orchestration has run: the locals of runAgenticLoop hold nothing
InitLoop ==
    /\ InitNoKeyCall
    /\ InitServing
    /\ apc = "idle"
    /\ noContext = FALSE
    /\ history = <<>>
    /\ userMsg = claudeMsg("user", Text(EmptyText))
    /\ callMessages = <<>>
    /\ round = 0
    /\ resp = EmptyText
    /\ finalResponse = EmptyText
    /\ aiRet = "none"
    /\ nCalls = 0
    /\ nRuns = 0
    /\ ctxRet = NoStoreCall

\* anthropicKey(): "" when neither the environment nor the config holds a key
NoKey == 0
SomeKey == 1

\* a query parameter: present with a value, or absent
Given(v) == [present |-> TRUE, v |-> v]
NoText == [present |-> FALSE, v |-> ""]
NoDigits == [present |-> FALSE, v |-> <<>>]

\* url.Parse(raw): scheme, host and the query parameters
PairURL(s, h, q) == [scheme |-> s, host |-> h, query |-> q]
NoPairURL == PairURL("", "", [host |-> NoText, port |-> NoDigits, token |-> NoText, name |-> NoText])

DefaultPort == 8765
NoDevice == [name |-> "", host |-> "", port |-> 0, token |-> ""]
NotCalled == [dev |-> NoDevice, err |-> "not called"]

\* a Go slice or map: nil, or holding elems
GoNil == [isNil |-> TRUE, elems |-> <<>>]
GoOf(e) == [isNil |-> FALSE, elems |-> e]

\* client.CmdMsg (client.go)
GoCmdMsg(i, c, a, f, p) ==
    [type |-> "cmd", id |-> i, cmd |-> c, args |-> a, flags |-> f, payload |-> p]

\* a JSON member: absent from the object, null, or a value
JAbsent == [json |-> "absent", v |-> <<>>]
JNull == [json |-> "null", v |-> <<>>]
JArray(e) == [json |-> "array", v |-> e]
JObject(m) == [json |-> "object", v |-> m]
JString(t) == [json |-> "string", v |-> <<t>>]

\* a Kotlin reference: null, or a value
KtNull == [isNull |-> TRUE, v |-> <<>>]
KtOf(x) == [isNull |-> FALSE, v |-> <<x>>]

NoGoCmd == GoCmdMsg("", "", GoNil, GoNil, "")
NoLine == [type |-> JAbsent, id |-> JAbsent, cmd |-> JAbsent, args |-> JAbsent,
           flags |-> JAbsent, payload |-> JAbsent]
NoKtCmd == [type |-> KtNull, id |-> KtNull, cmd |-> KtNull, args |-> KtNull,
            flags |-> KtNull, payload |-> KtNull]

\* no Cmd is being written
InitNoWire ==
    /\ goCmd = NoGoCmd
    /\ cmdLine = NoLine
    /\ ktCmd = NoKtCmd

\* a Config with no device, as LoadConfig returns it when no file exists
EmptyConfig == [devices |-> <<>>, default_device |-> ""]

\* no device is registered, no call on the Config has been made
InitNoConfig ==
    /\ cfg = EmptyConfig
    /\ nAdds = 0
    /\ getRet = NotCalled

\* parsePairURL has not been called
InitNoPair ==
    /\ InitNoWire
    /\ InitNoConfig
    /\ pairURL = NoPairURL
    /\ pairRet = NotCalled

\* no line is being parsed
InitNoLine ==
    /\ InitNoPair
    /\ rawCmd = <<>>
    /\ args0 = <<>>
    /\ parts = <<>>
    /\ pureArgs = <<>>
    /\ flags = <<>>
    /\ tpc = "none"

\* executeCommands is not running, a key is configured
InitNoBatch ==
    /\ InitNoLine
    /\ apiKey = SomeKey
    /\ cliCalls = 0
    /\ commands = <<>>
    /\ ci = 0
    /\ sentLog = <<>>
    /\ results = <<>>
    /\ screenshotB64 = EmptyText

\* no orchestrator: the context file is never touched
InitNoAI ==
    /\ InitLoop
    /\ InitNoBatch
    /\ file = AbsentFile
    /\ file0 = AbsentFile
    /\ seq = 0
    /\ replyKinds = {}
    /\ captures = {}
    /\ turnLimit = 0

\* no CLI client: every peer is an arbitrary TCP peer
InitNoClient ==
    /\ cConn = 0
    /\ devTok = NoToken
    /\ cpc = "none"
    /\ inq = <<>>
    /\ a2c = <<>>
    /\ wire = <<>>
    /\ cSentId = 0
    /\ cNextId = 1
    /\ cRet = NoRet
    /\ closes = 0

\* session management: NumConns arbitrary peers, each sending the same Cmd
Init ==
    /\ InitFresh
    /\ InitAgent
    /\ InitNoClient
    /\ InitNoAI
    /\ nPeers = NumConns
    /\ rawCmds = {CmdLine(1, "ls")}

\* writer.println(msg): PrintWriter never throws; on a closed socket the
\* line is dropped
Println(c, m) ==
    /\ out' = <<<<c, m>>>>
    /\ a2c' = IF c = cConn /\ sockOpen[c] THEN Append(a2c, m) ELSE a2c
    /\ wire' = IF c = cConn THEN Append(wire, <<"agent", m.type>>) ELSE wire

\* a step that writes nothing
Silent ==
    /\ out' = <<>>
    /\ UNCHANGED <<a2c, wire>>

\* ---- KeyAuthManager -----------------------------------------------------
\* verifyToken comparing only against "no token stored"
verifyToken_AnyToken(p, s) == s # NoToken

\* verifyToken(presented)
verifyToken(p, s) == IF s = NoToken THEN FALSE ELSE p = s

\* generateToken(): a token that neither the agent nor any peer holds
generateToken ==
    LET held == {stored, devTok} \cup {presented[c] : c \in Conns}
    IN  CHOOSE t \in FirstToken..(FirstToken + NumConns + 2) :
            /\ t \notin held
            /\ \A u \in FirstToken..(t - 1) : u \in held

\* getOrCreateToken(): regenerates a missing or legacy-format token
NeedsRegen(s) == s = NoToken \/ IsLegacyFormat(s)

\* ---- runServer / handleClient -------------------------------------------
\* serverSocket.accept() returns; scope.launch { handleClient(socket) }
Accept(c) ==
    /\ scopeActive
    /\ pc[c] = "idle"
    /\ \A d \in Conns : d < c => pc[d] # "idle"
    /\ c <= nPeers
    /\ c = cConn => cpc # "init"
    /\ pc' = [pc EXCEPT ![c] = "hello"]
    /\ sockOpen' = [sockOpen EXCEPT ![c] = TRUE]
    /\ Silent
    /\ ran' = {}
    /\ UNCHANGED <<rotations, stored, sessions, scopeActive, mainPc, rotSnap, presented, cur, cliVars, inq>>

\* handleClient, lines 110-114: HelloMsg(auth.getDeviceName(),
\* auth.tokenFingerprint()), where tokenFingerprint calls getOrCreateToken
SendHello(c) ==
    /\ pc[c] = "hello"
    /\ IF NeedsRegen(stored)
          THEN stored' = generateToken
          ELSE UNCHANGED stored
    /\ Println(c, HelloMsg)
    /\ pc' = [pc EXCEPT ![c] = "readAuth"]
    /\ ran' = {}
    /\ UNCHANGED <<rotations, sessions, scopeActive, mainPc, rotSnap, sockOpen,
                   presented, cur, cliVars, inq>>

\* the lines an arbitrary peer can have on the wire during the handshake
RawAuthLines ==
    {EOF, Garbage, OtherType, AuthNoToken, AuthLine(BadToken)}
        \cup {AuthLine(t) : t \in {stored} \ {NoToken}}

\* the lines an arbitrary peer can have on the wire in command mode
RawCmdLines ==
    {EOF, Garbage, OtherType, CmdMalformed}
        \cup rawCmds

\* reader.readLine(): what the blocking read can return now; the CLI
\* client's lines arrive in order, end of stream once it closed
Incoming(c, raw) ==
    IF c # cConn THEN raw
    ELSE IF inq # <<>> THEN {Head(inq)}
    ELSE IF cpc \in {"closed", "failed"} THEN {EOF}
    ELSE {}

Consume(c, l) ==
    inq' = IF c = cConn /\ l # EOF THEN Tail(inq) ELSE inq

\* leaving the try block for the finally block: authMsg and cmd go out of scope
ToFinally(c) ==
    /\ pc' = [pc EXCEPT ![c] = "finRemove"]
    /\ presented' = [presented EXCEPT ![c] = NoToken]
    /\ cur' = [cur EXCEPT ![c] = NoCmd]

\* a handshake without the type check: whatever the first line is, it is
\* parsed as an auth message
ReadAuth_NoTypeCheck(c) ==
    /\ pc[c] = "readAuth"
    /\ \E l \in Incoming(c, RawAuthLines) :
          /\ Consume(c, l)
          /\ IF l = EOF
                THEN ToFinally(c) /\ Silent
                ELSE IF l.token = NoToken /\ msgType(l) = "auth"
                THEN ToFinally(c) /\ Silent
                ELSE /\ presented' = [presented EXCEPT ![c] = l.token]
                     /\ pc' = [pc EXCEPT ![c] = "verify"]
                     /\ Silent
                     /\ UNCHANGED cur
    /\ ran' = {}
    /\ UNCHANGED <<rotations, stored, sessions, scopeActive, mainPc, rotSnap, sockOpen, cliVars>>

\* handleClient, lines 116-122: read the auth line, check its type, parse
\* it; parseAuthMsg yields a null token when the member is missing, which
\* verifyToken's parameter check rejects with an exception
ReadAuth(c) ==
    /\ pc[c] = "readAuth"
    /\ \E l \in Incoming(c, RawAuthLines) :
          /\ Consume(c, l)
          /\ IF l = EOF
                THEN ToFinally(c) /\ Silent
                ELSE IF msgType(l) # "auth"
                THEN ToFinally(c) /\ Println(c, AuthFailMsg("expected auth message"))
                ELSE IF l.token = NoToken
                THEN ToFinally(c) /\ Silent
                ELSE /\ presented' = [presented EXCEPT ![c] = l.token]
                     /\ pc' = [pc EXCEPT ![c] = "verify"]
                     /\ Silent
                     /\ UNCHANGED cur
    /\ ran' = {}
    /\ UNCHANGED <<rotations, stored, sessions, scopeActive, mainPc, rotSnap, sockOpen, cliVars>>

\* Verify without the return after auth_fail: the handler falls through to
\* command mode
Verify_NoReturn(c) ==
    /\ pc[c] = "verify"
    /\ IF verifyToken(presented[c], stored)
          THEN Println(c, AuthOkMsg)
          ELSE Println(c, AuthFailMsg("invalid token"))
    /\ pc' = [pc EXCEPT ![c] = "register"]
    /\ ran' = {}
    /\ UNCHANGED <<rotations, stored, sessions, scopeActive, mainPc, rotSnap, sockOpen, presented, cur, cliVars, inq>>

\* handleClient, lines 123-129: auth.verifyToken(authMsg.token), then
\* auth_fail and return, or auth_ok
Verify(c) ==
    /\ pc[c] = "verify"
    /\ IF verifyToken(presented[c], stored)
          THEN /\ Println(c, AuthOkMsg)
               /\ pc' = [pc EXCEPT ![c] = "register"]
               /\ UNCHANGED <<presented, cur>>
          ELSE /\ Println(c, AuthFailMsg("invalid token"))
               /\ ToFinally(c)
    /\ ran' = {}
    /\ UNCHANGED <<rotations, stored, sessions, scopeActive, mainPc, rotSnap, sockOpen, cliVars, inq>>

\* handleClient, lines 130-137: sessions[sessionId] = session
Register(c) ==
    /\ pc[c] = "register"
    /\ sessions' = sessions \cup {c}
    /\ pc' = [pc EXCEPT ![c] = "loop"]
    /\ Silent
    /\ ran' = {}
    /\ UNCHANGED <<rotations, stored, scopeActive, mainPc, rotSnap,
                   sockOpen, presented, cur, cliVars, inq>>

\* a command loop that ends the session on a line that is not a cmd
ReadCmd_CloseOnStray(c) ==
    /\ pc[c] = "loop"
    /\ IF ~scopeActive \/ ~sockOpen[c]
          THEN ToFinally(c) /\ UNCHANGED inq
          ELSE \E l \in Incoming(c, RawCmdLines) :
                  /\ Consume(c, l)
                  /\ IF l = EOF \/ msgType(l) # "cmd" \/ l = CmdMalformed
                        THEN ToFinally(c)
                        ELSE /\ cur' = [cur EXCEPT ![c] = l]
                             /\ pc' = [pc EXCEPT ![c] = "dispatch"]
                             /\ UNCHANGED presented
    /\ Silent
    /\ ran' = {}
    /\ UNCHANGED <<rotations, stored, sessions, scopeActive, mainPc, rotSnap, sockOpen, cliVars>>

\* handleClient, lines 140-144: the loop condition, readLine, the type
\* check and parseCmdMsg; a closed socket makes readLine throw; a cmd line
\* whose members do not parse (or lack the id) ends the handler
ReadCmd(c) ==
    /\ pc[c] = "loop"
    /\ IF ~scopeActive \/ ~sockOpen[c]
          THEN ToFinally(c) /\ UNCHANGED inq
          ELSE \E l \in Incoming(c, RawCmdLines) :
                  /\ Consume(c, l)
                  /\ IF l = EOF
                        THEN ToFinally(c)
                        ELSE IF msgType(l) # "cmd"
                        THEN UNCHANGED <<pc, presented, cur>>
                        ELSE IF l = CmdMalformed
                        THEN ToFinally(c)
                        ELSE /\ cur' = [cur EXCEPT ![c] = l]
                             /\ pc' = [pc EXCEPT ![c] = "dispatch"]
                             /\ UNCHANGED presented
    /\ Silent
    /\ ran' = {}
    /\ UNCHANGED <<rotations, stored, sessions, scopeActive, mainPc, rotSnap, sockOpen, cliVars>>

\* what a registered handler can do with a Cmd
HandlerOutcomes == {"ok", "fail", "throw"}

\* a command handler (FileCommands.ls): resultOk with the entries,
\* resultErr when the path does not exist or cannot be read; it throws when
\* cmd.args is null
Handler(cmd, outcome) ==
    IF outcome = "ok" THEN resultOk(cmd.id)
    ELSE resultErr(cmd.id, <<"path does not exist">>)

\* a router whose else branch hands the Cmd to a handler
RouterDispatch_DefaultHandler(cmd, outcome) ==
    [invoked |-> {<<cmd.cmd, outcome>>}, threw |-> outcome = "throw",
     result |-> Handler(cmd, outcome)]

\* CommandRouter.dispatch(cmd): exact-name lookup, else branch for the rest
RouterDispatch(cmd, outcome) ==
    IF cmd.cmd \in Registered
       THEN [invoked |-> {<<cmd.cmd, outcome>>}, threw |-> outcome = "throw",
             result |-> Handler(cmd, outcome)]
       ELSE [invoked |-> {}, threw |-> FALSE,
             result |-> resultErr(cmd.id, <<"unknown command: ", cmd.cmd>>)]

\* a response that does not carry the id of the Cmd
Response_NoId(cmd, outcome) ==
    resultErr(0, <<"internal error">>)

\* handleClient, lines 152-156: try { router.dispatch(cmd) } catch
Response(cmd, outcome) ==
    LET r == RouterDispatch(cmd, outcome)
    IN  IF r.threw THEN resultErr(cmd.id, <<"internal error">>) ELSE r.result

\* a command loop without the try/catch around router.dispatch: a handler
\* exception ends the loop
Dispatch_NoCatch(c) ==
    /\ pc[c] = "dispatch"
    /\ \E outcome \in HandlerOutcomes :
          /\ ran' = RouterDispatch(cur[c], outcome).invoked
          /\ IF RouterDispatch(cur[c], outcome).threw
                THEN /\ Silent
                     /\ ToFinally(c)
                ELSE /\ Println(c, Response(cur[c], outcome))
                     /\ cur' = [cur EXCEPT ![c] = NoCmd]
                     /\ pc' = [pc EXCEPT ![c] = "loop"]
                     /\ UNCHANGED presented
    /\ UNCHANGED <<rotations, stored, sessions, scopeActive, mainPc, rotSnap, sockOpen, cliVars, inq>>

\* a command loop that closes the session after a Result with ok = false
Dispatch_CloseOnFail(c) ==
    /\ pc[c] = "dispatch"
    /\ \E outcome \in HandlerOutcomes :
          /\ Println(c, Response(cur[c], outcome))
          /\ ran' = RouterDispatch(cur[c], outcome).invoked
          /\ sockOpen' = [sockOpen EXCEPT ![c] = @ /\ Response(cur[c], outcome).ok]
    /\ cur' = [cur EXCEPT ![c] = NoCmd]
    /\ pc' = [pc EXCEPT ![c] = "loop"]
    /\ UNCHANGED <<rotations, stored, sessions, scopeActive, mainPc, rotSnap, presented, cliVars, inq>>

\* handleClient, lines 145-158: dispatch the Cmd and write the response
Dispatch(c) ==
    /\ pc[c] = "dispatch"
    /\ \E outcome \in HandlerOutcomes :
          /\ Println(c, Response(cur[c], outcome))
          /\ ran' = RouterDispatch(cur[c], outcome).invoked
    /\ cur' = [cur EXCEPT ![c] = NoCmd]
    /\ pc' = [pc EXCEPT ![c] = "loop"]
    /\ UNCHANGED <<rotations, stored, sessions, scopeActive, mainPc, rotSnap, sockOpen, presented, cliVars, inq>>

\* a finally block that leaves the entry in the registry
FinRemove_KeepEntry(c) ==
    /\ pc[c] = "finRemove"
    /\ pc' = [pc EXCEPT ![c] = "finClose"]
    /\ Silent
    /\ ran' = {}
    /\ UNCHANGED <<rotations, stored, sessions, scopeActive, mainPc, rotSnap,
                   sockOpen, presented, cur, cliVars, inq>>

\* handleClient, line 164 (finally): sessions.remove(sessionId)
FinRemove(c) ==
    /\ pc[c] = "finRemove"
    /\ sessions' = sessions \ {c}
    /\ pc' = [pc EXCEPT ![c] = "finClose"]
    /\ Silent
    /\ ran' = {}
    /\ UNCHANGED <<rotations, stored, scopeActive, mainPc, rotSnap,
                   sockOpen, presented, cur, cliVars, inq>>

\* handleClient, lines 165-169 (finally): session.close()
FinClose(c) ==
    /\ pc[c] = "finClose"
    /\ sockOpen' = [sockOpen EXCEPT ![c] = FALSE]
    /\ pc' = [pc EXCEPT ![c] = "done"]
    /\ Silent
    /\ ran' = {}
    /\ UNCHANGED <<rotations, stored, sessions, scopeActive, mainPc, rotSnap, presented, cur, cliVars, inq>>

\* ---- onStartCommand (main thread) ---------------------------------------
connVars == <<pc, presented, cur, cliVars, inq>>

\* ACTION_ROTATE_TOKEN, line 58: auth.rotateToken()
RotateToken ==
    /\ scopeActive
    /\ mainPc = "idle"
    /\ rotations < MaxRotations
    /\ stored' = generateToken
    /\ rotSnap' = sessions
    /\ mainPc' = "rotClose"
    /\ Silent
    /\ ran' = {}
    /\ UNCHANGED <<rotations, sessions, scopeActive, sockOpen, connVars>>

\* sessions.values.forEach { it.close() }
CloseAll == [c \in Conns |-> IF c \in sessions THEN FALSE ELSE sockOpen[c]]

\* ACTION_ROTATE_TOKEN, line 60
RotCloseAll ==
    /\ mainPc = "rotClose"
    /\ sockOpen' = CloseAll
    /\ mainPc' = "rotClear"
    /\ Silent
    /\ ran' = {}
    /\ UNCHANGED <<rotations, stored, sessions, rotSnap, scopeActive,
                   connVars>>

\* ACTION_ROTATE_TOKEN, lines 61-62: sessions.clear(); return START_STICKY
RotClear ==
    /\ mainPc = "rotClear"
    /\ sessions' = {}
    /\ rotSnap' = {}
    /\ mainPc' = "idle"
    /\ Silent
    /\ ran' = {}
    /\ rotations' = rotations + 1
    /\ UNCHANGED <<stored, scopeActive, sockOpen, connVars>>

HandlerStep(c) ==
    \/ SendHello(c)
    \/ ReadAuth(c)
    \/ Verify(c)
    \/ Register(c)
    \/ ReadCmd(c)
    \/ Dispatch(c)
    \/ FinRemove(c)
    \/ FinClose(c)

Next ==
    \/ \E c \in Conns : Accept(c)
    \/ \E c \in Conns : HandlerStep(c)
    \/ RotateToken
    \/ RotCloseAll
    \/ RotClear

Spec == Init /\ [][Next]_vars

\* command handling: one arbitrary peer, sending any Cmd of CmdIds x CmdNames
InitCmd ==
    /\ InitFresh
    /\ InitAgent
    /\ InitNoClient
    /\ InitNoAI
    /\ nPeers = 1
    /\ rawCmds = {CmdLine(i, n) : i \in CmdIds, n \in CmdNames}

SpecCmd == InitCmd /\ [][Next]_vars

\* ---- the CLI client (client.go) -----------------------------------------
agentVars == <<rotations, stored, sessions, scopeActive, mainPc, rotSnap, pc, sockOpen, presented, cur>>
envVars == <<nPeers, rawCmds, cConn, devTok, aiVars>>

\* a client step writes no agent line and runs no handler
ClientSide ==
    /\ out' = <<>>
    /\ ran' = {}
    /\ UNCHANGED <<agentVars, envVars>>

\* the agent's end of the connection is gone: a read past the buffered
\* lines fails, a write may fail
AgentGone == pc[cConn] # "idle" /\ ~sockOpen[cConn]

\* Connect, lines 70-75: net.DialTimeout
Dial ==
    /\ cpc = "init"
    /\ \/ cpc' = "hsHello"
       \/ cpc' = "unreachable"
    /\ ClientSide
    /\ UNCHANGED closes
    /\ UNCHANGED <<inq, a2c, wire, cSentId, cNextId, cRet>>

\* writeLine(v): json.Marshal and one write to the connection
writeLine(l) ==
    /\ inq' = Append(inq, l)
    /\ wire' = Append(wire, <<"client", l.kind>>)

\* a handshake that sends the auth without waiting for the hello
HandshakeHello_Eager ==
    /\ cpc = "hsHello"
    /\ writeLine(AuthLine(devTok))
    /\ cpc' = "hsResp"
    /\ ClientSide
    /\ UNCHANGED closes
    /\ UNCHANGED <<a2c, cSentId, cNextId, cRet>>

\* handshake, lines 95-111: read the hello, send the auth; any error makes
\* Connect close the connection (lines 83-86)
HandshakeHello ==
    /\ cpc = "hsHello"
    /\ \/ /\ a2c # <<>>
          /\ a2c' = Tail(a2c)
          /\ IF Head(a2c).type = "hello"
                THEN writeLine(AuthLine(devTok)) /\ cpc' = "hsResp"
                ELSE cpc' = "failed" /\ UNCHANGED <<inq, wire>>
       \/ /\ cpc' = "failed"
          /\ UNCHANGED <<inq, a2c, wire>>
    /\ ClientSide
    /\ UNCHANGED closes
    /\ UNCHANGED <<cSentId, cNextId, cRet>>

\* a handshake whose switch lets every response but auth_fail pass
HandshakeResp_DefaultOk ==
    /\ cpc = "hsResp"
    /\ \/ /\ a2c # <<>>
          /\ a2c' = Tail(a2c)
          /\ cpc' = IF Head(a2c).type = "auth_fail" THEN "failed" ELSE "ready"
       \/ /\ cpc' = "failed"
          /\ UNCHANGED a2c
    /\ ClientSide
    /\ UNCHANGED closes
    /\ UNCHANGED <<inq, wire, cSentId, cNextId, cRet>>

\* handshake, lines 114-131: read the response, switch on its type
HandshakeResp ==
    /\ cpc = "hsResp"
    /\ \/ /\ a2c # <<>>
          /\ a2c' = Tail(a2c)
          /\ cpc' = IF Head(a2c).type = "auth_ok" THEN "ready" ELSE "failed"
       \/ /\ cpc' = "failed"
          /\ UNCHANGED a2c
    /\ ClientSide
    /\ UNCHANGED closes
    /\ UNCHANGED <<inq, wire, cSentId, cNextId, cRet>>

Returned(id, e, r) == [sent |-> id, err |-> e, result |-> r]

\* Run, lines 138-143, called by executeCommands with a fresh id
\* (time.Now().UnixNano()): set the deadline, write the Cmd
RunSend ==
    /\ cpc = "ready"
    /\ cNextId <= MaxCmds
    /\ cNextId' = cNextId + 1
    /\ \E n \in CmdNames :
          \/ /\ writeLine(CmdLine(cNextId, n))
             /\ cSentId' = cNextId
             /\ cpc' = "runRead"
             /\ UNCHANGED cRet
          \/ /\ AgentGone
             /\ cRet' = Returned(cNextId, "sending command", NoMsg)
             /\ UNCHANGED <<inq, wire, cSentId, cpc>>
    /\ ClientSide
    /\ UNCHANGED closes
    /\ UNCHANGED a2c

\* json.Unmarshal(line, &result): the members of the line that ResultMsg has
ParseResult(m) ==
    [type |-> m.type, id |-> m.id, ok |-> m.ok, error |-> m.error]

\* Run, lines 145-154: read one line and parse it; the read fails when the
\* deadline expires first or the connection ended
RunRecv ==
    /\ cpc = "runRead"
    /\ \/ /\ a2c # <<>>
          /\ a2c' = Tail(a2c)
          /\ cRet' = Returned(cSentId, "none", ParseResult(Head(a2c)))
       \/ /\ a2c = <<>>
          /\ cRet' = Returned(cSentId, "reading response: timeout", NoMsg)
          /\ UNCHANGED a2c
       \/ /\ a2c = <<>>
          /\ AgentGone
          /\ cRet' = Returned(cSentId, "reading response: EOF", NoMsg)
          /\ UNCHANGED a2c
    /\ cpc' = "ready"
    /\ ClientSide
    /\ UNCHANGED closes
    /\ UNCHANGED <<inq, wire, cSentId, cNextId>>

\* a Close that insists on an open connection
Close_Checked ==
    /\ cpc \in {"ready", "closed"}
    /\ closes < MaxCloses
    /\ closes' = closes + 1
    /\ cpc' = IF cpc = "closed" THEN "panicked" ELSE "closed"
    /\ ClientSide
    /\ UNCHANGED <<inq, a2c, wire, cSentId, cNextId, cRet>>

\* Close: c.conn.Close(), its error dropped; on a closed connection the
\* call changes nothing
Close ==
    /\ cpc \in {"ready", "closed"}
    /\ closes < MaxCloses
    /\ closes' = closes + 1
    /\ cpc' = "closed"
    /\ ClientSide
    /\ UNCHANGED <<inq, a2c, wire, cSentId, cNextId, cRet>>

ClientStep ==
    \/ Dial
    \/ HandshakeHello
    \/ HandshakeResp
    \/ RunSend
    \/ RunRecv
    \/ Close

\* one CLI client paired with the agent's token or with another one
InitWire ==
    /\ InitPaired
    /\ InitNoAI
    /\ InitAgent
    /\ cConn = 1
    /\ nPeers = 1
    /\ rawCmds = {}
    /\ devTok \in {FirstToken, BadToken}
    /\ cpc = "init"
    /\ inq = <<>>
    /\ a2c = <<>>
    /\ wire = <<>>
    /\ cSentId = 0
    /\ cNextId = 1
    /\ cRet = NoRet
    /\ closes = 0

NextWire ==
    \/ Next
    \/ ClientStep

SpecWire == InitWire /\ [][NextWire]_vars

\* ---- the orchestrator (ai.go) ---------------------------------------------
\* a step of the orchestrator: the agent and the transport client are
\* left alone (executeCommands' use of the connection is the device's
\* answer drawn in ExecuteCommands)
AiSide ==
    /\ out' = <<>>
    /\ ran' = {}
    /\ UNCHANGED <<agentVars, nPeers, rawCmds, cConn, devTok, cpc, inq, a2c,
                   wire, cSentId, cNextId, cRet, closes>>
    /\ UNCHANGED <<replyKinds, captures, turnLimit, toolVars, keyVars, pureVars, srvVars, monVars, cfgVars>>

\* runAgenticLoop, lines 204-216: load the context unless disabled (the
\* error of loadContext is dropped), build userMsg and callMessages
Start(nc) ==
    /\ apc = "idle"
    /\ seq < turnLimit
    /\ noContext' = nc
    /\ history' = IF nc THEN <<>> ELSE loadContext(file).msgs
    /\ userMsg' = claudeMsg("user", Text(seq + 1))
    /\ callMessages' = Append(history', userMsg')
    /\ round' = 0
    /\ resp' = EmptyText
    /\ finalResponse' = EmptyText
    /\ aiRet' = "running"
    /\ nCalls' = 0
    /\ nRuns' = 0
    /\ file0' = file
    /\ apc' = "call"
    /\ AiSide
    /\ UNCHANGED <<file, seq, ctxRet>>

\* the text of a reply: the single action "psh screenshot", other
\* commands, or nothing
ReplyText(k) ==
    IF k = "shot" THEN ShotText
    ELSE IF k = "act" THEN seq + 2
    ELSE EmptyText

\* a loop that goes on to the next round when callClaude fails
CallClaude_RetryOnError ==
    /\ apc = "call"
    /\ nCalls < Rounds + 1
    /\ \E k \in replyKinds :
          IF k = "error"
             THEN /\ UNCHANGED <<resp, callMessages, aiRet, apc>>
             ELSE /\ resp' = ReplyText(k)
                  /\ callMessages' = Append(callMessages,
                                          claudeMsg("assistant", Text(ReplyText(k))))
                  /\ apc' = "exec"
                  /\ UNCHANGED aiRet
    /\ nCalls' = nCalls + 1
    /\ AiSide
    /\ UNCHANGED <<file, file0, noContext, history, userMsg, round,
                   finalResponse, nRuns, seq, ctxRet>>

\* runAgenticLoop, lines 220-226: callClaude; an error is returned at
\* once, a reply is appended to callMessages
CallClaude ==
    /\ apc = "call"
    /\ \E k \in replyKinds :
          IF k = "error"
             THEN /\ aiRet' = "error"
                  /\ apc' = "idle"
                  /\ UNCHANGED <<resp, callMessages>>
             ELSE /\ resp' = ReplyText(k)
                  /\ callMessages' = Append(callMessages,
                                          claudeMsg("assistant", Text(ReplyText(k))))
                  /\ apc' = "exec"
                  /\ UNCHANGED aiRet
    /\ nCalls' = nCalls + 1
    /\ AiSide
    /\ UNCHANGED <<file, file0, noContext, history, userMsg, round,
                   finalResponse, nRuns, seq, ctxRet>>

\* parseLines(resp): how many command lines the reply holds
NumCommands(t) == IF t = EmptyText THEN 0 ELSE 1

\* whether executeCommands can return a screenshot: the reply holds the
\* screenshot command and the device delivers the picture or not
Captured(t) == IF t = ShotText THEN captures ELSE {FALSE}

\* a loop without the bound on the rounds
ExecuteCommands_NoBound ==
    /\ apc = "exec"
    /\ nCalls < Rounds + 1
    /\ nRuns' = nRuns + NumCommands(resp)
    /\ \E got \in Captured(resp) :
          IF ~got
             THEN /\ finalResponse' = resp
                  /\ apc' = "persist"
                  /\ UNCHANGED <<callMessages, round>>
             ELSE /\ callMessages' = Append(callMessages, claudeMsg("user", Blocks))
                  /\ round' = round + 1
                  /\ apc' = "call"
                  /\ UNCHANGED finalResponse
    /\ AiSide
    /\ UNCHANGED <<file, file0, noContext, history, userMsg, resp, aiRet,
                   nCalls, seq, ctxRet>>

\* runAgenticLoop, lines 228-254 and the loop header: executeCommands;
\* without a screenshot this was the final round, with one the image is
\* appended and the next round starts unless three rounds have run
ExecuteCommands ==
    /\ apc = "exec"
    /\ nRuns' = nRuns + NumCommands(resp)
    /\ \E got \in Captured(resp) :
          IF ~got
             THEN /\ finalResponse' = resp
                  /\ apc' = "persist"
                  /\ UNCHANGED <<callMessages, round>>
             ELSE /\ callMessages' = Append(callMessages, claudeMsg("user", Blocks))
                  /\ round' = round + 1
                  /\ apc' = IF round + 1 < Rounds THEN "call" ELSE "persist"
                  /\ UNCHANGED finalResponse
    /\ AiSide
    /\ UNCHANGED <<file, file0, noContext, history, userMsg, resp, aiRet,
                   nCalls, seq, ctxRet>>

\* history + this user query + final assistant response
Updated ==
    history \o <<userMsg, claudeMsg("assistant", Text(finalResponse))>>

\* a persist step that keeps the first 40 turns
Persist_KeepOldest ==
    /\ apc = "persist"
    /\ IF ~noContext /\ finalResponse # EmptyText
          THEN /\ file' = saveContext(IF Len(Updated) > ContextCap
                                         THEN SubSeq(Updated, 1, ContextCap)
                                         ELSE Updated)
               /\ seq' = seq + 2
          ELSE UNCHANGED <<file, seq>>
    /\ aiRet' = "ok"
    /\ apc' = "idle"
    /\ AiSide
    /\ UNCHANGED <<file0, noContext, history, userMsg, callMessages, round,
                   resp, finalResponse, nCalls, nRuns, ctxRet>>

\* a persist step that saves whether or not the context is disabled
Persist_IgnoreNoContext ==
    /\ apc = "persist"
    /\ IF finalResponse # EmptyText
          THEN /\ file' = saveContext(LastTurns(Updated))
               /\ seq' = seq + 2
          ELSE UNCHANGED <<file, seq>>
    /\ aiRet' = "ok"
    /\ apc' = "idle"
    /\ AiSide
    /\ UNCHANGED <<file0, noContext, history, userMsg, callMessages, round,
                   resp, finalResponse, nCalls, nRuns, ctxRet>>

\* runAgenticLoop, lines 256-269: persist the context, return nil
Persist ==
    /\ apc = "persist"
    /\ IF ~noContext /\ finalResponse # EmptyText
          THEN /\ file' = saveContext(LastTurns(Updated))
               /\ seq' = seq + 2
          ELSE UNCHANGED <<file, seq>>
    /\ aiRet' = "ok"
    /\ apc' = "idle"
    /\ AiSide
    /\ UNCHANGED <<file0, noContext, history, userMsg, callMessages, round,
                   resp, finalResponse, nCalls, nRuns, ctxRet>>

loopVars == <<apc, noContext, history, userMsg, callMessages, round, resp,
              finalResponse, aiRet, nCalls, nRuns, seq>>

StoreReturned(o, e, m) == [op |-> o, err |-> e, msgs |-> m]

\* psh ai --clear (aiCmd.RunE, lines 152-160): clearContext()
ClearCmd ==
    /\ apc = "idle"
    /\ file0' = file
    /\ file' = clearContext(file).file
    /\ ctxRet' = StoreReturned("clear", clearContext(file).err, <<>>)
    /\ AiSide
    /\ UNCHANGED loopVars

NextAI ==
    \/ \E nc \in BOOLEAN : Start(nc)
    \/ CallClaude
    \/ ExecuteCommands
    \/ Persist
    \/ ClearCmd

AllReplies == {"error", "shot", "act", "empty"}

\* the context files found at the start: none, one left by 1, 19 or 20
\* earlier exchanges, or one that does not parse
InitFiles ==
    {AbsentFile, MalformedFile}
        \cup {FileOf(n) : n \in {2, ContextCap - 2, ContextCap}}

\* a few invocations on any of these files, any reply, any device answer
InitAI ==
    /\ InitFresh
    /\ InitAgent
    /\ InitNoClient
    /\ nPeers = 0
    /\ rawCmds = {}
    /\ InitLoop
    /\ InitNoBatch
    /\ file \in InitFiles
    /\ file0 = file
    /\ seq = Len(file.msgs)
    /\ replyKinds = AllReplies
    /\ captures = BOOLEAN
    /\ turnLimit = seq + 2 * MaxExchanges

SpecAI == InitAI /\ [][NextAI]_vars

\* many invocations and Clears starting without a context file; the
\* device delivers every screenshot asked for
InitCap ==
    /\ InitFresh
    /\ InitAgent
    /\ InitNoClient
    /\ nPeers = 0
    /\ rawCmds = {}
    /\ InitLoop
    /\ InitNoBatch
    /\ file = AbsentFile
    /\ file0 = file
    /\ seq = 0
    /\ replyKinds = AllReplies
    /\ captures = {TRUE}
    /\ turnLimit = MaxTurns

SpecCap == InitCap /\ [][NextAI]_vars

\* ---- the context store called directly -----------------------------------
\* n turns, the last one holding an image when img
TurnsIn(n, img) ==
    [i \in 1..n |-> claudeMsg(RoleAt(i),
                              IF img /\ i = n THEN Blocks ELSE Text(i))]

SaveLens == {0, 1, 2, ContextCap, ContextCap + 1, ContextCap + 5}
SaveInputs == {TurnsIn(n, img) : n \in SaveLens, img \in BOOLEAN}

\* saveContext(msgs)
StoreSave(msgs) ==
    /\ apc = "idle"
    /\ file0' = file
    /\ file' = saveContext(msgs)
    /\ ctxRet' = StoreReturned("save", "none", msgs)
    /\ AiSide
    /\ UNCHANGED loopVars

\* loadContext()
StoreLoad ==
    /\ apc = "idle"
    /\ file0' = file
    /\ ctxRet' = StoreReturned("load", loadContext(file).err, loadContext(file).msgs)
    /\ AiSide
    /\ UNCHANGED <<file, loopVars>>

NextStore ==
    \/ \E msgs \in SaveInputs : StoreSave(msgs)
    \/ StoreLoad
    \/ ClearCmd

InitStore ==
    /\ InitFresh
    /\ InitAgent
    /\ InitNoClient
    /\ nPeers = 0
    /\ rawCmds = {}
    /\ InitLoop
    /\ InitNoBatch
    /\ file \in {AbsentFile, MalformedFile, FileOf(2)}
    /\ file0 = file
    /\ seq = 0
    /\ replyKinds = {}
    /\ captures = {}
    /\ turnLimit = 0

SpecStore == InitStore /\ [][NextStore]_vars

\* ---- runServer --------------------------------------------------------------
\* what a step of an accept loop or of its environment leaves alone
LoopSide ==
    /\ out' = <<>>
    /\ ran' = {}
    /\ UNCHANGED <<rotations, stored, sessions, scopeActive, mainPc, rotSnap,
                   pc, sockOpen, presented, cur, inq, a2c, wire>>
    /\ UNCHANGED <<nPeers, rawCmds, cConn, devTok, cpc, cSentId, cNextId, cRet,
                   closes>>
    /\ UNCHANGED <<file, file0, apc, noContext, history, userMsg, callMessages,
                   round, resp, finalResponse, aiRet, nCalls, nRuns, seq,
                   replyKinds, captures, turnLimit, ctxRet, keyVars, toolVars,
                   pureVars, monVars, cfgVars>>

\* the same, for a step that launches no coroutine
ServerSide ==
    /\ LoopSide
    /\ UNCHANGED launched

\* the operating system runs out of sockets
FaultBegins ==
    /\ ~fault
    /\ faults < MaxFaults
    /\ fault' = TRUE
    /\ faults' = faults + 1
    /\ UNCHANGED <<srvPc, portBound>>
    /\ ServerSide

\* the fault is gone
FaultEnds ==
    /\ fault
    /\ fault' = FALSE
    /\ UNCHANGED <<srvPc, portBound, faults>>
    /\ ServerSide

\* an accept loop that calls handleClient itself instead of launching it:
\* accept() is reached again only when that handler has returned
ServerAccept_Inline(c) ==
    /\ srvPc = "accept"
    /\ ~fault
    /\ \A d \in Conns : pc[d] \in {"idle", "done"}
    /\ Accept(c)

\* runServer, lines 88-92: serverSocket!!.accept() returns a socket and
\* handleClient is launched for it
ServerAccept(c) ==
    /\ srvPc = "accept"
    /\ ~fault
    /\ Accept(c)

\* runServer, lines 93-95: accept() throws; with the scope active the
\* catch block starts delay(3000). The ServerSocket is not closed.
AcceptFails ==
    /\ srvPc = "accept"
    /\ fault
    /\ srvPc' = IF scopeActive THEN "delay" ELSE "ended"
    /\ UNCHANGED <<portBound, fault, faults>>
    /\ ServerSide

\* runServer, lines 96-97 and 87: after the delay runServer() is called
\* again and constructs ServerSocket(PORT); while the port is bound (by
\* the socket the previous call left open) or the fault lasts, the
\* constructor throws and the catch block delays again
Restart ==
    /\ srvPc = "delay"
    /\ IF portBound \/ fault
          THEN /\ srvPc' = IF scopeActive THEN "delay" ELSE "ended"
               /\ UNCHANGED portBound
          ELSE /\ srvPc' = "accept"
               /\ portBound' = TRUE
    /\ UNCHANGED <<fault, faults>>
    /\ ServerSide

NextServer ==
    \/ \E c \in Conns : ServerAccept(c)
    \/ \E c \in Conns : HandlerStep(c)
    \/ FaultBegins
    \/ FaultEnds
    \/ AcceptFails
    \/ Restart

\* the agent serves arbitrary peers while the accept loop may fail
InitServer ==
    /\ InitPaired
    /\ InitAgent
    /\ InitNoClient
    /\ InitNoAI
    /\ nPeers = NumConns
    /\ rawCmds = {CmdLine(1, "ls")}

SpecServer == InitServer /\ [][NextServer]_vars

\* the delay ends, the fault ends, pending accepts and handlers proceed
FairServer ==
    /\ WF_vars(Restart)
    /\ WF_vars(FaultEnds)
    /\ WF_vars(AcceptFails)
    /\ \A c \in Conns : WF_vars(ServerAccept(c))

SpecServerFair == SpecServer /\ FairServer

\* ---- sessions side by side -----------------------------------------------
\* the accept loop and the handlers it launched, with no fault in accept()
NextSessions ==
    \/ \E c \in Conns : ServerAccept(c)
    \/ \E c \in Conns : HandlerStep(c)

SpecSessions == InitServer /\ [][NextSessions]_vars

\* scope.launch on Dispatchers.IO gives every handler a thread of its own:
\* the accept loop and the handler of the second connection go on whenever
\* they can; nothing is assumed of the first connection, whose handler may
\* stay in readLine() or in router.dispatch for ever
FairSessions ==
    /\ WF_vars(ServerAccept(2))
    /\ WF_vars(Dispatch(2))

SpecSessionsFair == SpecSessions /\ FairSessions

\* ---- KeyAuthManager, call by call ----------------------------------------
\* a step inside KeyAuthManager touches the token store and the caller only
KeySide ==
    /\ out' = <<>>
    /\ ran' = {}
    /\ UNCHANGED <<sessions, scopeActive, mainPc, rotSnap, pc, sockOpen, cur,
                   inq, a2c, wire>>
    /\ UNCHANGED <<nPeers, rawCmds, cConn, devTok, cpc, cSentId, cNextId, cRet,
                   closes>>
    /\ UNCHANGED <<file, file0, apc, noContext, history, userMsg, callMessages,
                   round, resp, finalResponse, aiRet, nCalls, nRuns, seq,
                   replyKinds, captures, turnLimit, ctxRet, keyVars, toolVars,
                   pureVars, srvVars, cfgVars>>

\* @Synchronized fun getOrCreateToken(), called by a handler through
\* tokenFingerprint(): the caller takes the monitor
GetOrCreateEnter(t) ==
    /\ t \in Conns
    /\ kpc[t] = "idle"
    /\ monitor = NoThread
    /\ monitor' = t
    /\ kpc' = [kpc EXCEPT ![t] = "getRead"]
    /\ UNCHANGED <<stored, rotations, presented, kStored, kRet>>
    /\ KeySide

\* getOrCreateToken: val stored = prefs.getString(KEY_TOKEN, null) and the
\* test for a missing or old-format token
GetOrCreateRead(t) ==
    /\ kpc[t] = "getRead"
    /\ kStored' = [kStored EXCEPT ![t] = stored]
    /\ kpc' = [kpc EXCEPT ![t] = IF NeedsRegen(stored) THEN "getCommit" ELSE "getReturn"]
    /\ UNCHANGED <<stored, rotations, presented, monitor, kRet>>
    /\ KeySide

\* getOrCreateToken: prefs.edit().putString(KEY_TOKEN, generateToken()).commit()
GetOrCreateCommit(t) ==
    /\ kpc[t] = "getCommit"
    /\ stored' = generateToken
    /\ kpc' = [kpc EXCEPT ![t] = "getReturn"]
    /\ UNCHANGED <<rotations, presented, monitor, kStored, kRet>>
    /\ KeySide

\* getOrCreateToken returns and releases the monitor
GetOrCreateReturn(t) ==
    /\ kpc[t] = "getReturn"
    /\ monitor' = NoThread
    /\ kpc' = [kpc EXCEPT ![t] = "helloSent"]
    /\ kStored' = [kStored EXCEPT ![t] = NoToken]
    /\ UNCHANGED <<stored, rotations, presented, kRet>>
    /\ KeySide

\* @Synchronized fun rotateToken(), called by the main thread
\* (ACTION_ROTATE_TOKEN): the caller takes the monitor
RotateEnter ==
    /\ kpc[MainThread] = "idle"
    /\ rotations < MaxRotations
    /\ monitor = NoThread
    /\ monitor' = MainThread
    /\ kpc' = [kpc EXCEPT ![MainThread] = "rotCommit"]
    /\ UNCHANGED <<stored, rotations, presented, kStored, kRet>>
    /\ KeySide

\* rotateToken: prefs.edit().putString(KEY_TOKEN, generateToken()).commit()
RotateCommit ==
    /\ kpc[MainThread] = "rotCommit"
    /\ stored' = generateToken
    /\ kpc' = [kpc EXCEPT ![MainThread] = "rotReturn"]
    /\ UNCHANGED <<rotations, presented, monitor, kStored, kRet>>
    /\ KeySide

\* rotateToken returns and releases the monitor
RotateReturn ==
    /\ kpc[MainThread] = "rotReturn"
    /\ monitor' = NoThread
    /\ rotations' = rotations + 1
    /\ kpc' = [kpc EXCEPT ![MainThread] = "idle"]
    /\ UNCHANGED <<stored, presented, kStored, kRet>>
    /\ KeySide

\* the tokens a peer may present
PresentedTokens == {BadToken, FirstToken} \cup ({stored} \ {NoToken})

\* fun verifyToken(presented), called by a handler once its hello is written
\* and the peer's auth line is read: not @Synchronized, the monitor is
\* neither awaited nor taken
VerifyCall(t) ==
    /\ t \in Conns
    /\ kpc[t] = "helloSent"
    /\ \E p \in PresentedTokens : presented' = [presented EXCEPT ![t] = p]
    /\ kpc' = [kpc EXCEPT ![t] = "verRead"]
    /\ kRet' = [kRet EXCEPT ![t] = "none"]
    /\ UNCHANGED <<stored, rotations, monitor, kStored>>
    /\ KeySide

\* verifyToken: val stored = prefs.getString(KEY_TOKEN, null)
VerifyRead(t) ==
    /\ kpc[t] = "verRead"
    /\ kStored' = [kStored EXCEPT ![t] = stored]
    /\ kpc' = [kpc EXCEPT ![t] = "verReturn"]
    /\ UNCHANGED <<stored, rotations, presented, monitor, kRet>>
    /\ KeySide

\* verifyToken: ?: return false, else MessageDigest.isEqual(presented, stored)
VerifyReturn(t) ==
    /\ kpc[t] = "verReturn"
    /\ kRet' = [kRet EXCEPT ![t] = IF verifyToken(presented[t], kStored[t]) THEN "true" ELSE "false"]
    /\ kpc' = [kpc EXCEPT ![t] = "idle"]
    /\ kStored' = [kStored EXCEPT ![t] = NoToken]
    /\ presented' = [presented EXCEPT ![t] = NoToken]
    /\ UNCHANGED <<stored, rotations, monitor>>
    /\ KeySide

NextKeyAuth ==
    \/ \E t \in Conns : GetOrCreateEnter(t)
    \/ \E t \in Conns : GetOrCreateRead(t)
    \/ \E t \in Conns : GetOrCreateCommit(t)
    \/ \E t \in Conns : GetOrCreateReturn(t)
    \/ RotateEnter
    \/ RotateCommit
    \/ RotateReturn
    \/ \E t \in Conns : VerifyCall(t)
    \/ \E t \in Conns : VerifyRead(t)
    \/ \E t \in Conns : VerifyReturn(t)

\* a fresh install, an install holding an old-format token, a paired one
InitKeyAuth ==
    /\ stored \in {NoToken, LegacyToken, FirstToken}
    /\ InitAgent
    /\ InitNoClient
    /\ InitNoAI
    /\ nPeers = NumConns
    /\ rawCmds = {CmdLine(1, "ls")}

SpecKeyAuth == InitKeyAuth /\ [][NextKeyAuth]_vars

\* ---- a peer that wrote its lines ahead ------------------------------------
\* the lines such a peer may have written
ScriptLines ==
    {Garbage, OtherType, AuthNoToken, AuthLine(BadToken), AuthLine(FirstToken),
     CmdMalformed, CmdLine(1, "ls")}

\* the peer of connection 1 has written MaxLines lines, in any order and of
\* any kind, and keeps its end open; readLine() returns them one by one and
\* then blocks
InitScript ==
    /\ InitPaired
    /\ InitAgent
    /\ InitNoAI
    /\ cConn = 1
    /\ nPeers = 1
    /\ rawCmds = {}
    /\ devTok = NoToken
    /\ cpc = "none"
    /\ inq \in [1..MaxLines -> ScriptLines]
    /\ a2c = <<>>
    /\ wire = <<>>
    /\ cSentId = 0
    /\ cNextId = 1
    /\ cRet = NoRet
    /\ closes = 0

SpecScript == InitScript /\ [][NextSessions]_vars

\* ---- Connect against any server -------------------------------------------
\* a line that json.Unmarshal rejects
GarbageMsg == [type |-> "garbage", id |-> 0, ok |-> FALSE, error |-> <<>>]

\* the lines a server may have written
ServerLines ==
    {HelloMsg, AuthOkMsg, AuthFailMsg("invalid token"), resultOk(1), GarbageMsg}

\* the sequences of at most n such lines
ServerScripts(n) == UNION {[1..k -> ServerLines] : k \in 0..n}

\* the peer is some server that wrote up to MaxLines lines ahead, in any
\* order and of any kind, and either keeps its end open or has closed it
InitConnect ==
    /\ InitPaired
    /\ InitNoAI
    /\ rotations = 0
    /\ sessions = {}
    /\ scopeActive = TRUE
    /\ mainPc = "idle"
    /\ rotSnap = {}
    /\ \E gone \in BOOLEAN :
          pc = [c \in Conns |-> IF c = 1 /\ gone THEN "done" ELSE "idle"]
    /\ sockOpen = [c \in Conns |-> FALSE]
    /\ presented = [c \in Conns |-> NoToken]
    /\ cur = [c \in Conns |-> NoCmd]
    /\ out = <<>>
    /\ ran = {}
    /\ cConn = 1
    /\ nPeers = 1
    /\ rawCmds = {}
    /\ devTok \in {FirstToken, BadToken}
    /\ cpc = "init"
    /\ inq = <<>>
    /\ a2c \in ServerScripts(MaxLines)
    /\ wire = <<>>
    /\ cSentId = 0
    /\ cNextId = 1
    /\ cRet = NoRet
    /\ closes = 0

SpecConnect == InitConnect /\ [][ClientStep]_vars

\* ---- onDestroy ------------------------------------------------------------
\* a step of onDestroy touches the scope, the server socket and the sockets
\* of the registered sessions only
DestroySide ==
    /\ out' = <<>>
    /\ ran' = {}
    /\ UNCHANGED <<rotations, stored, sessions, rotSnap, pc, presented, cur,
                   inq, a2c, wire>>
    /\ UNCHANGED <<nPeers, rawCmds, cConn, devTok, cpc, cSentId, cNextId, cRet,
                   closes>>
    /\ UNCHANGED <<file, file0, apc, noContext, history, userMsg, callMessages,
                   round, resp, finalResponse, aiRet, nCalls, nRuns, seq,
                   replyKinds, captures, turnLimit, ctxRet, keyVars, toolVars,
                   pureVars, monVars, cfgVars>>
    /\ UNCHANGED <<fault, faults, launched>>

\* onDestroy, line 77: scope.cancel()
DestroyCancel ==
    /\ mainPc = "idle"
    /\ scopeActive
    /\ scopeActive' = FALSE
    /\ mainPc' = "destroyServer"
    /\ UNCHANGED <<srvPc, portBound, sockOpen>>
    /\ DestroySide

\* onDestroy, line 78: serverSocket?.close(); the accept() waiting on it
\* throws, and with the scope cancelled runServer returns (lines 92-98)
DestroyCloseServer ==
    /\ mainPc = "destroyServer"
    /\ portBound' = FALSE
    /\ srvPc' = "ended"
    /\ mainPc' = "destroySessions"
    /\ UNCHANGED <<scopeActive, sockOpen>>
    /\ DestroySide

\* onDestroy, line 79: sessions.values.forEach { it.close() }
DestroyCloseSessions ==
    /\ mainPc = "destroySessions"
    /\ sockOpen' = CloseAll
    /\ mainPc' = "destroyed"
    /\ UNCHANGED <<scopeActive, srvPc, portBound>>
    /\ DestroySide

\* the accept loop, the handlers and the end of the service
NextLifecycle ==
    \/ \E c \in Conns : ServerAccept(c)
    \/ \E c \in Conns : HandlerStep(c)
    \/ DestroyCancel
    \/ DestroyCloseServer
    \/ DestroyCloseSessions

SpecLifecycle == InitServer /\ [][NextLifecycle]_vars

\* ---- start requests ---------------------------------------------------
\* onStartCommand, lines 49-69, for an intent that is neither ACTION_STOP
\* nor ACTION_ROTATE_TOKEN (BootReceiver line 12, MainActivity's
\* startService): startForeground, then scope.launch { runServer() }.
\* Nothing is tested before the launch.
StartRequest(k) ==
    /\ mainPc = "idle"
    /\ scopeActive
    /\ launched[k] = "none"
    /\ \A j \in Starts : j < k => launched[j] # "none"
    /\ launched' = [launched EXCEPT ![k] = "start"]
    /\ UNCHANGED <<srvPc, portBound, fault, faults>>
    /\ LoopSide

\* runServer in the coroutine start request k launched, lines 86-87 and
\* 93-97: ServerSocket(PORT) is constructed, at first or after a delay;
\* while the port is bound or the fault lasts the constructor throws and,
\* with the scope active, the catch block delays and calls runServer()
\* again. A loop that bound the port would go on to accept().
LaunchedBind(k) ==
    /\ launched[k] \in {"start", "delay"}
    /\ IF portBound \/ fault
          THEN /\ launched' = [launched EXCEPT
                                 ![k] = IF scopeActive THEN "delay" ELSE "ended"]
               /\ UNCHANGED portBound
          ELSE /\ launched' = [launched EXCEPT ![k] = "accept"]
               /\ portBound' = TRUE
    /\ UNCHANGED <<srvPc, fault, faults>>
    /\ LoopSide

NextStarts ==
    \/ \E k \in Starts : StartRequest(k)
    \/ \E k \in Starts : LaunchedBind(k)
    \/ \E c \in Conns : ServerAccept(c)
    \/ \E c \in Conns : HandlerStep(c)
    \/ FaultBegins
    \/ FaultEnds
    \/ AcceptFails
    \/ Restart
    \/ DestroyCancel
    \/ DestroyCloseServer
    \/ DestroyCloseSessions

\* the running service receives further start requests while one peer
\* connects
InitStarts ==
    /\ InitPaired
    /\ InitAgent
    /\ InitNoClient
    /\ InitNoAI
    /\ nPeers = 1
    /\ rawCmds = {CmdLine(1, "ls")}

SpecStarts == InitStarts /\ [][NextStarts]_vars

\* ---- broadcasts to the external listener ---------------------------------
\* handleClient, lines 134-137, part of the registering step:
\* sendBroadcast(Intent(BROADCAST_CLIENT_CONNECTED)) for connection c
EmitsConnected(c) == pc[c] = "register" /\ pc'[c] = "loop"

\* handleClient, lines 147-150, part of the dispatching step:
\* sendBroadcast(Intent(BROADCAST_COMMAND_EXECUTED)) for connection c
EmitsCommand(c) == pc[c] = "dispatch" /\ pc'[c] # "dispatch"

\* handleClient, lines 167-169, the end of the finally block:
\* sendBroadcast(Intent(BROADCAST_DISCONNECTED)) for connection c
EmitsDisconnected(c) == pc[c] = "finClose" /\ pc'[c] = "done"

\* ---- a context file that no longer parses ---------------------------------
\* the file n earlier turns left, damaged since (cut short, edited by hand):
\* the turns are in it, json.Unmarshal rejects it
DamagedFile(n) == [st |-> "malformed", msgs |-> FileOf(n).msgs]

\* a few invocations on a file that is absent, intact or damaged
InitDamaged ==
    /\ InitFresh
    /\ InitAgent
    /\ InitNoClient
    /\ nPeers = 0
    /\ rawCmds = {}
    /\ InitLoop
    /\ InitNoBatch
    /\ file \in {AbsentFile, FileOf(2), DamagedFile(2), DamagedFile(ContextCap)}
    /\ file0 = file
    /\ seq = Len(file.msgs)
    /\ replyKinds = AllReplies
    /\ captures = BOOLEAN
    /\ turnLimit = seq + 2 * MaxExchanges

SpecDamaged == InitDamaged /\ [][NextAI]_vars

\* ---- runAI: the loop or the fallback --------------------------------------
\* what a fallback step leaves alone
FallbackSide ==
    /\ out' = <<>>
    /\ ran' = {}
    /\ UNCHANGED <<agentVars, nPeers, rawCmds, cConn, devTok, cpc, inq, a2c,
                   wire, cSentId, cNextId, cRet, closes>>
    /\ UNCHANGED <<replyKinds, captures, turnLimit, toolVars, apiKey, pureVars, srvVars, monVars, cfgVars>>
    /\ UNCHANGED <<file, noContext, history, userMsg, callMessages, round,
                   finalResponse, nCalls, seq, ctxRet>>

\* runAI, lines 190-194: askClaudeCLI runs the external tool once; its
\* failure is returned, its output is parsed into lines
AskClaudeCLI ==
    /\ apc = "idle"
    /\ file0' = file
    /\ cliCalls' = 1
    /\ nRuns' = 0
    /\ \E k \in replyKinds :
          IF k = "error"
             THEN /\ aiRet' = "error"
                  /\ apc' = "idle"
                  /\ UNCHANGED resp
             ELSE /\ aiRet' = "running"
                  /\ apc' = "fallback"
                  /\ resp' = ReplyText(k)
    /\ FallbackSide

\* a fallback that asks the tool again after a screenshot
FallbackExecute_SecondRound ==
    /\ apc = "fallback"
    /\ cliCalls < Rounds
    /\ nRuns' = nRuns + NumCommands(resp)
    /\ \E got \in Captured(resp) :
          IF got
             THEN /\ cliCalls' = cliCalls + 1
                  /\ UNCHANGED <<aiRet, apc>>
             ELSE /\ aiRet' = "ok"
                  /\ apc' = "idle"
                  /\ UNCHANGED cliCalls
    /\ UNCHANGED <<file0, resp>>
    /\ FallbackSide

\* runAI, lines 195-197: executeCommands once, its screenshot is
\* dropped, return nil
FallbackExecute ==
    /\ apc = "fallback"
    /\ nRuns' = nRuns + NumCommands(resp)
    /\ \E got \in Captured(resp) :
          /\ aiRet' = "ok"
          /\ apc' = "idle"
    /\ UNCHANGED <<file0, resp, cliCalls>>
    /\ FallbackSide

\* runAI, lines 176-198: with a key runAgenticLoop, without one the
\* fallback
RunAI(nc) ==
    IF apiKey # NoKey THEN Start(nc) ELSE AskClaudeCLI

NextRunAI ==
    \/ \E nc \in BOOLEAN : RunAI(nc)
    \/ CallClaude
    \/ ExecuteCommands
    \/ Persist
    \/ FallbackExecute

\* invocations with and without a configured key
InitRunAI ==
    /\ InitFresh
    /\ InitAgent
    /\ InitNoClient
    /\ nPeers = 0
    /\ rawCmds = {}
    /\ InitLoop
    /\ commands = <<>>
    /\ ci = 0
    /\ sentLog = <<>>
    /\ results = <<>>
    /\ screenshotB64 = EmptyText
    /\ InitNoLine
    /\ apiKey \in {NoKey, SomeKey}
    /\ cliCalls = 0
    /\ file \in InitFiles
    /\ file0 = file
    /\ seq = Len(file.msgs)
    /\ replyKinds = AllReplies
    /\ captures = BOOLEAN
    /\ turnLimit = seq + 2 * MaxExchanges

SpecRunAI == InitRunAI /\ [][NextRunAI]_vars

\* ---- parseCommand and the separation of flags ------------------------------
\* a string is the sequence of its characters
DQ == "\""
SQ == "'"
SP == " "

NoQuote == "none"

\* parseCommand, lines 552-566: the switch on one rune
scanRune(st, r) ==
    IF ~st.inQuote /\ (r = DQ \/ r = SQ)
       THEN [st EXCEPT !.inQuote = TRUE, !.quoteChar = r]
    ELSE IF st.inQuote /\ r = st.quoteChar
       THEN [st EXCEPT !.inQuote = FALSE]
    ELSE IF ~st.inQuote /\ r = SP
       THEN IF Len(st.current) > 0
               THEN [st EXCEPT !.parts = Append(@, st.current), !.current = <<>>]
               ELSE st
    ELSE [st EXCEPT !.current = Append(@, r)]

RECURSIVE scanFrom(_, _, _)
scanFrom(raw, i, st) ==
    IF i > Len(raw) THEN st ELSE scanFrom(raw, i + 1, scanRune(st, raw[i]))

\* parseCommand
parseCommand(raw) ==
    LET st == scanFrom(raw, 1, [parts |-> <<>>, current |-> <<>>,
                                inQuote |-> FALSE, quoteChar |-> NoQuote])
    IN  IF Len(st.current) > 0 THEN Append(st.parts, st.current) ELSE st.parts

\* strings.HasPrefix(t, "--") and strings.TrimPrefix(t, "--")
HasDashes(t) == Len(t) >= 2 /\ t[1] = "-" /\ t[2] = "-"
TrimDashes(t) == SubSeq(t, 3, Len(t))

TrueString == <<"t", "r", "u", "e">>

\* flags[key] = value on a Go map
Put(m, key, value) == (key :> value) @@ m

\* executeCommands, lines 291-308: the loop over cmdArgs from index i
RECURSIVE separateFrom(_, _, _)
separateFrom(cmdArgs, i, acc) ==
    IF i > Len(cmdArgs) THEN acc
    ELSE IF HasDashes(cmdArgs[i])
       THEN IF i + 1 <= Len(cmdArgs) /\ ~HasDashes(cmdArgs[i + 1])
               THEN separateFrom(cmdArgs, i + 2,
                        [acc EXCEPT !.flags = Put(@, TrimDashes(cmdArgs[i]), cmdArgs[i + 1])])
               ELSE separateFrom(cmdArgs, i + 1,
                        [acc EXCEPT !.flags = Put(@, TrimDashes(cmdArgs[i]), TrueString)])
       ELSE separateFrom(cmdArgs, i + 1,
                [acc EXCEPT !.pureArgs = Append(@, cmdArgs[i])])

\* a word or a quoted span as written on a line
Word(t) == [quote |-> NoQuote, text |-> t]
Quoted(q, t) == [quote |-> q, text |-> t]
Written(it) ==
    IF it.quote = NoQuote THEN it.text ELSE <<it.quote>> \o it.text \o <<it.quote>>

RECURSIVE Joined(_)
Joined(its) ==
    IF its = <<>> THEN <<>>
    ELSE IF Len(its) = 1 THEN Written(its[1])
    ELSE Written(its[1]) \o <<SP>> \o Joined(Tail(its))

Psh == Word(<<"p", "s", "h">>)
Open == Word(<<"o", "p", "e", "n">>)

\* the arguments a reply line is written with
ArgItems ==
    {Word(<<"1">>), Word(<<"-", "-", "x">>), Word(<<"-", "-", "y">>),
     Quoted(DQ, <<"a", SP, "b">>), Quoted(SQ, <<"a", SP, "b">>),
     Quoted(DQ, <<>>)}

ArgLists == UNION {[1..n -> ArgItems] : n \in 0..MaxArgs}

\* the line of the worked example: psh open "a b" --x 1 --y
ExampleArgs ==
    <<Quoted(DQ, <<"a", SP, "b">>), Word(<<"-", "-", "x">>), Word(<<"1">>),
      Word(<<"-", "-", "y">>)>>

\* what a step of a function checked on its own leaves alone
PureSide ==
    /\ out' = <<>>
    /\ ran' = {}
    /\ UNCHANGED <<agentVars, nPeers, rawCmds, cConn, devTok, cpc, inq, a2c,
                   wire, cSentId, cNextId, cRet, closes>>
    /\ UNCHANGED <<file, file0, apc, noContext, history, userMsg, callMessages,
                   round, resp, finalResponse, aiRet, nCalls, nRuns, seq,
                   replyKinds, captures, turnLimit, ctxRet, keyVars, toolVars, srvVars, monVars>>

\* what a step on the line leaves alone
LineSide ==
    /\ PureSide
    /\ UNCHANGED cfgVars

\* executeCommands, line 283: parts := parseCommand(rawCmd)
ParseLine ==
    /\ tpc = "line"
    /\ parts' = parseCommand(rawCmd)
    /\ tpc' = IF Len(parts') < 2 THEN "skipped" ELSE "parts"
    /\ UNCHANGED <<rawCmd, args0, pureArgs, flags, pairURL, pairRet, goCmd, cmdLine, ktCmd>>
    /\ LineSide

\* executeCommands, lines 287-308: cmdArgs := parts[2:], flags and
\* pureArgs are filled from it
SeparateFlags ==
    /\ tpc = "parts"
    /\ LET r == separateFrom(SubSeq(parts, 3, Len(parts)), 1,
                              [pureArgs |-> <<>>, flags |-> <<>>])
       IN  /\ pureArgs' = r.pureArgs
           /\ flags' = r.flags
    /\ tpc' = "msg"
    /\ UNCHANGED <<rawCmd, args0, parts, pairURL, pairRet, goCmd, cmdLine, ktCmd>>
    /\ LineSide

NextLine ==
    \/ ParseLine
    \/ SeparateFlags

\* a line "psh open ..." with any arguments, or a shorter line
InitLine ==
    /\ InitFresh
    /\ InitAgent
    /\ InitNoClient
    /\ nPeers = 0
    /\ rawCmds = {}
    /\ InitLoop
    /\ file = AbsentFile
    /\ file0 = AbsentFile
    /\ seq = 0
    /\ replyKinds = {}
    /\ captures = {}
    /\ turnLimit = 0
    /\ apiKey = SomeKey
    /\ cliCalls = 0
    /\ commands = <<>>
    /\ ci = 0
    /\ sentLog = <<>>
    /\ results = <<>>
    /\ screenshotB64 = EmptyText
    /\ args0 \in ArgLists \cup {ExampleArgs}
    /\ rawCmd \in {Joined(<<Psh, Open>> \o args0), Joined(<<Psh>>)}
    /\ parts = <<>>
    /\ pureArgs = <<>>
    /\ flags = <<>>
    /\ tpc = "line"
    /\ InitNoPair

SpecLine == InitLine /\ [][NextLine]_vars

\* ---- parsePairURL ----------------------------------------------------------
\* url.Values.Get: the value, "" when the parameter is absent
Get(o) == o.v

Digits == {"0", "1", "2", "3", "4", "5", "6", "7", "8", "9"}
DigitValue(c) ==
    CASE c = "0" -> 0 [] c = "1" -> 1 [] c = "2" -> 2 [] c = "3" -> 3
      [] c = "4" -> 4 [] c = "5" -> 5 [] c = "6" -> 6 [] c = "7" -> 7
      [] c = "8" -> 8 [] c = "9" -> 9

RECURSIVE decimal(_, _)
decimal(ds, acc) ==
    IF ds = <<>> THEN acc ELSE decimal(Tail(ds), 10 * acc + DigitValue(Head(ds)))

\* strconv.Atoi on an unsigned string
Atoi(ds) ==
    IF ds # <<>> /\ \A i \in DOMAIN ds : ds[i] \in Digits
       THEN [n |-> decimal(ds, 0), err |-> "none"]
       ELSE [n |-> 0, err |-> "invalid syntax"]

Failed(e) == [dev |-> NoDevice, err |-> e]
Device(n, h, p, t) == [name |-> n, host |-> h, port |-> p, token |-> t]

\* a parser that leaves the name empty when the parameter is absent
parsePairURL_NoDefaultName(u) ==
    IF u.scheme # "psh" \/ u.host # "pair" THEN Failed("expected psh://pair")
    ELSE IF Get(u.query.host) = "" \/ Get(u.query.token) = ""
       THEN Failed("missing host or token in URL")
    ELSE IF Get(u.query.port) # <<>> /\ Atoi(Get(u.query.port)).err # "none"
       THEN Failed("invalid port")
    ELSE [dev |-> Device(Get(u.query.name), Get(u.query.host),
                         IF Get(u.query.port) # <<>>
                            THEN Atoi(Get(u.query.port)).n ELSE DefaultPort,
                         Get(u.query.token)),
          err |-> "none"]

\* parsePairURL, lines 104-139
parsePairURL(u) ==
    IF u.scheme # "psh" \/ u.host # "pair" THEN Failed("expected psh://pair")
    ELSE IF Get(u.query.host) = "" \/ Get(u.query.token) = ""
       THEN Failed("missing host or token in URL")
    ELSE IF Get(u.query.port) # <<>> /\ Atoi(Get(u.query.port)).err # "none"
       THEN Failed("invalid port")
    ELSE [dev |-> Device(IF Get(u.query.name) = ""
                            THEN Get(u.query.host) ELSE Get(u.query.name),
                         Get(u.query.host),
                         IF Get(u.query.port) # <<>>
                            THEN Atoi(Get(u.query.port)).n ELSE DefaultPort,
                         Get(u.query.token)),
          err |-> "none"]

\* the pairing descriptors read: each parameter absent, empty or given
TextParams(v) == {NoText, Given(""), Given(v)}
PortParams ==
    {NoDigits, Given(<<>>), Given(<<"9", "0", "0", "0">>), Given(<<"8", "0">>),
     Given(<<"8", "0", "a">>)}
PairURLs ==
    {PairURL(s, h, [host |-> qh, port |-> qp, token |-> qt, name |-> qn]) :
        s \in {"psh", "http"}, h \in {"pair", "device"},
        qh \in TextParams("10.0.0.5"), qp \in PortParams,
        qt \in TextParams("abc123"), qn \in TextParams("Pixel")}

\* psh pair <url>: dev, err := parsePairURL(pairURL)
ParsePair ==
    /\ pairRet = NotCalled
    /\ pairRet' = parsePairURL(pairURL)
    /\ UNCHANGED <<pairURL, rawCmd, args0, parts, pureArgs, flags, tpc, goCmd, cmdLine, ktCmd>>
    /\ LineSide

NextPair == ParsePair

InitPair ==
    /\ InitFresh
    /\ InitAgent
    /\ InitNoClient
    /\ nPeers = 0
    /\ rawCmds = {}
    /\ InitLoop
    /\ file = AbsentFile
    /\ file0 = AbsentFile
    /\ seq = 0
    /\ replyKinds = {}
    /\ captures = {}
    /\ turnLimit = 0
    /\ apiKey = SomeKey
    /\ cliCalls = 0
    /\ commands = <<>>
    /\ ci = 0
    /\ sentLog = <<>>
    /\ results = <<>>
    /\ screenshotB64 = EmptyText
    /\ rawCmd = <<>>
    /\ args0 = <<>>
    /\ parts = <<>>
    /\ pureArgs = <<>>
    /\ flags = <<>>
    /\ tpc = "none"
    /\ pairURL \in PairURLs
    /\ pairRet = NotCalled
    /\ InitNoWire
    /\ InitNoConfig

SpecPair == InitPair /\ [][NextPair]_vars

\* ---- the device registry (Config) ----------------------------------------
\* what a call on the Config leaves alone
ConfigSide ==
    /\ PureSide
    /\ UNCHANGED pureVars

\* the devices a pairing can produce: parsePairURL leaves no name empty
DeviceNames == {"Pixel", "Tab", "Fold"}
DeviceHosts == {"10.0.0.5", "10.0.0.6", "10.0.0.7"}
PairedDevices ==
    {Device(n, h, DefaultPort, "abc123") : n \in DeviceNames, h \in DeviceHosts}

\* the index of the first entry the loop of AddOrUpdateDevice stops at
\* (0: none)
FirstMatch(devs, d) ==
    LET hits == {i \in DOMAIN devs :
                    devs[i].name = d.name \/ devs[i].host = d.host}
    IN IF hits = {} THEN 0 ELSE CHOOSE i \in hits : \A j \in hits : i <= j

\* Config.AddOrUpdateDevice: the first entry with the same name or the same
\* host is overwritten; with none the device is appended and becomes the
\* default when there is no default
AddOrUpdateDevice(c, d) ==
    LET i == FirstMatch(c.devices, d)
    IN IF i # 0
          THEN [c EXCEPT !.devices[i] = d]
          ELSE [devices |-> Append(c.devices, d),
                default_device |-> IF c.default_device = "" THEN d.name
                                   ELSE c.default_device]

\* Config.GetDevice(name)
GetDevice(c, name0) ==
    LET name == IF name0 = "" THEN c.default_device ELSE name0
        found == {i \in DOMAIN c.devices : c.devices[i].name = name}
    IN IF name = "" /\ Len(c.devices) = 1
          THEN [dev |-> c.devices[1], err |-> "none"]
       ELSE IF found # {}
          THEN [dev |-> c.devices[CHOOSE i \in found : \A j \in found : i <= j],
                err |-> "none"]
       ELSE IF name = "" THEN Failed("no devices paired")
       ELSE Failed("device not found")

\* psh pair, line 64: cfg.AddOrUpdateDevice(*dev)
Add(d) ==
    /\ nAdds < MaxAdds
    /\ cfg' = AddOrUpdateDevice(cfg, d)
    /\ nAdds' = nAdds + 1
    /\ getRet' = NotCalled
    /\ ConfigSide

\* a command without --device: cfg.GetDevice("")
GetDefault ==
    /\ getRet = NotCalled
    /\ getRet' = GetDevice(cfg, "")
    /\ UNCHANGED <<cfg, nAdds>>
    /\ ConfigSide

NextConfig ==
    \/ \E d \in PairedDevices : Add(d)
    \/ GetDefault

\* psh pair is run again and again on a machine with no config file
InitConfig ==
    /\ InitFresh
    /\ InitAgent
    /\ InitNoClient
    /\ nPeers = 0
    /\ rawCmds = {}
    /\ InitLoop
    /\ file = AbsentFile
    /\ file0 = AbsentFile
    /\ seq = 0
    /\ replyKinds = {}
    /\ captures = {}
    /\ turnLimit = 0
    /\ InitNoBatch

SpecConfig == InitConfig /\ [][NextConfig]_vars

\* ---- a Cmd on the wire ----------------------------------------------------
\* json.Marshal of a string member with omitempty
OmitEmpty(t) == IF t = "" THEN JAbsent ELSE JString(t)

\* json.Marshal of a []string and of a map[string]string: nil is null
MarshalSlice(a) == IF a.isNil THEN JNull ELSE JArray(a.elems)
MarshalMap(f) == IF f.isNil THEN JNull ELSE JObject(f.elems)

\* Client.writeLine: json.Marshal(v) of a CmdMsg
Marshal(c) ==
    [type |-> JString(c.type), id |-> JString(c.id), cmd |-> JString(c.cmd),
     args |-> MarshalSlice(c.args), flags |-> MarshalMap(c.flags),
     payload |-> OmitEmpty(c.payload)]

\* Gson on one member: an absent or null member leaves the field null
\* (the data class is instantiated without its constructor, its default
\* values are not applied), a value is stored
FromMember(m) ==
    IF m.json \in {"absent", "null"} THEN KtNull
    ELSE IF m.json = "string" THEN KtOf(m.v[1])
    ELSE KtOf(m.v)

\* String.parseCmdMsg: gson.fromJson(this, CmdMsg::class.java)
parseCmdMsg(l) ==
    [type |-> FromMember(l.type), id |-> FromMember(l.id), cmd |-> FromMember(l.cmd),
     args |-> FromMember(l.args), flags |-> FromMember(l.flags),
     payload |-> FromMember(l.payload)]

\* the Cmd values the CLI builds: args and flags nil, empty or filled,
\* with and without a payload
GoArgs == {GoNil, GoOf(<<>>), GoOf(<<"a">>), GoOf(<<"a", "b">>)}
GoFlags == {GoNil, GoOf(<<>>), GoOf("x" :> "1"), GoOf(("x" :> "1") @@ ("y" :> "true"))}
GoCmds ==
    {GoCmdMsg(i, c, a, f, p) :
        i \in {"1", "2"}, c \in {"ls", "push"}, a \in GoArgs, f \in GoFlags,
        p \in {"", "QUJD"}}

WireSide ==
    /\ UNCHANGED <<pairURL, pairRet, rawCmd, args0, parts, pureArgs, flags, tpc>>
    /\ LineSide

\* Client.Run: c.writeLine(cmd)
WriteCmd ==
    /\ cmdLine = NoLine
    /\ cmdLine' = Marshal(goCmd)
    /\ UNCHANGED <<goCmd, ktCmd>>
    /\ WireSide

\* handleClient: val cmd = line.parseCmdMsg()
ParseCmd ==
    /\ cmdLine # NoLine
    /\ ktCmd = NoKtCmd
    /\ ktCmd' = parseCmdMsg(cmdLine)
    /\ UNCHANGED <<goCmd, cmdLine>>
    /\ WireSide

NextRoundTrip ==
    \/ WriteCmd
    \/ ParseCmd

InitRoundTrip ==
    /\ InitFresh
    /\ InitAgent
    /\ InitNoClient
    /\ nPeers = 0
    /\ rawCmds = {}
    /\ InitLoop
    /\ file = AbsentFile
    /\ file0 = AbsentFile
    /\ seq = 0
    /\ replyKinds = {}
    /\ captures = {}
    /\ turnLimit = 0
    /\ apiKey = SomeKey
    /\ cliCalls = 0
    /\ commands = <<>>
    /\ ci = 0
    /\ sentLog = <<>>
    /\ results = <<>>
    /\ screenshotB64 = EmptyText
    /\ rawCmd = <<>>
    /\ args0 = <<>>
    /\ parts = <<>>
    /\ pureArgs = <<>>
    /\ flags = <<>>
    /\ tpc = "none"
    /\ pairURL = NoPairURL
    /\ InitNoConfig
    /\ pairRet = NotCalled
    /\ goCmd \in GoCmds
    /\ cmdLine = NoLine
    /\ ktCmd = NoKtCmd

SpecRoundTrip == InitRoundTrip /\ [][NextRoundTrip]_vars

\* ---- executeCommands, line by line ----------------------------------------
\* a line of the reply as executeCommands sees it: a comment ("#..."), a
\* line of fewer than two words, the screenshot command, another command
LineKinds == {"comment", "short", "shot", "cmd"}
Executable == {"shot", "cmd"}

\* the replies of at most MaxLines lines
Batches == UNION {[1..n -> LineKinds] : n \in 0..MaxLines}

\* how Client.Run ends: an error from writeLine, from ReadString or from
\* Unmarshal, a Result with ok=false, a Result with ok=true
RunErrors == {"sending command", "reading response", "parsing response"}
RunOutcomes == RunErrors \cup {"fail", "ok"}

\* a screenshot Result with ok=true may lack the string in data.content
OutcomesOf(l) == IF l = "shot" THEN RunOutcomes \cup {"ok no content"} ELSE RunOutcomes

\* the part of the system that is not executeCommands
BatchSide ==
    /\ out' = <<>>
    /\ ran' = {}
    /\ UNCHANGED <<agentVars, nPeers, rawCmds, cConn, devTok, cpc, inq, a2c,
                   wire, cSentId, cNextId, cRet, closes>>
    /\ UNCHANGED <<file, file0, apc, noContext, history, userMsg, callMessages,
                   round, resp, finalResponse, aiRet, nCalls, nRuns, seq,
                   replyKinds, captures, turnLimit, ctxRet, keyVars, pureVars, srvVars, monVars, cfgVars>>

\* a loop that returns at the first action that fails
ExecLine_AbortOnError ==
    /\ ci \in 1..Len(commands)
    /\ IF commands[ci] \notin Executable
          THEN /\ ci' = ci + 1
               /\ UNCHANGED <<sentLog, results, screenshotB64>>
          ELSE \E o \in OutcomesOf(commands[ci]) :
                  /\ sentLog' = Append(sentLog, ci)
                  /\ results' = Append(results, o)
                  /\ screenshotB64' = IF commands[ci] = "shot" /\ o = "ok"
                                         THEN ImageData ELSE screenshotB64
                  /\ ci' = IF o \in {"ok", "ok no content"}
                               THEN ci + 1 ELSE Len(commands) + 1
    /\ UNCHANGED commands
    /\ BatchSide

\* executeCommands, lines 277-338: one iteration of the loop over
\* commands; comments and short lines are skipped, every other line is
\* handed to c.Run, and the loop continues whatever Run returns
ExecLine ==
    /\ ci \in 1..Len(commands)
    /\ IF commands[ci] \notin Executable
          THEN UNCHANGED <<sentLog, results, screenshotB64>>
          ELSE \E o \in OutcomesOf(commands[ci]) :
                  /\ sentLog' = Append(sentLog, ci)
                  /\ results' = Append(results, o)
                  /\ screenshotB64' = IF commands[ci] = "shot" /\ o = "ok"
                                         THEN ImageData ELSE screenshotB64
    /\ ci' = ci + 1
    /\ UNCHANGED commands
    /\ BatchSide

\* executeCommands, line 341: return screenshotB64
ExecReturn ==
    /\ ci = Len(commands) + 1
    /\ ci' = 0
    /\ UNCHANGED <<commands, sentLog, results, screenshotB64>>
    /\ BatchSide

NextBatch ==
    \/ ExecLine
    \/ ExecReturn

\* executeCommands is called with the lines of any reply
InitBatch ==
    /\ InitFresh
    /\ InitAgent
    /\ InitNoClient
    /\ nPeers = 0
    /\ rawCmds = {}
    /\ InitLoop
    /\ file = AbsentFile
    /\ file0 = AbsentFile
    /\ seq = 0
    /\ replyKinds = {}
    /\ captures = {}
    /\ turnLimit = 0
    /\ apiKey = SomeKey
    /\ cliCalls = 0
    /\ InitNoLine
    /\ commands \in Batches
    /\ ci = 1
    /\ sentLog = <<>>
    /\ results = <<>>
    /\ screenshotB64 = EmptyText

SpecBatch == InitBatch /\ [][NextBatch]_vars

\* ==== properties =========================================================
InCommandMode == {"register", "loop", "dispatch"}
InFinally == {"finRemove", "finClose", "done"}

\* the step taken is a step of connection c's handler
Moves(c) == pc'[c] # pc[c]

\* the latest step wrote exactly the line m on connection c
Wrote(c, m) == out = <<<<c, m>>>>

\* C1: a handler whose client presented a token different from the stored
\* one answers auth_fail and goes to its finally block, from which it only
\* closes the socket; a session id enters the registry only by the
\* registering step of a handler that verifyToken accepted, so the id of a
\* rejected connection is never in the registry.
C1_WrongTokenRejected ==
    [][\A c \in Conns :
          /\ (pc[c] = "verify" /\ presented[c] # stored /\ Moves(c)) =>
                /\ out' = <<<<c, AuthFailMsg("invalid token")>>>>
                /\ pc'[c] = "finRemove"
                /\ c \notin sessions'
          /\ (pc[c] \in InFinally) =>
                /\ pc'[c] \in InFinally
                /\ c \notin sessions' \ sessions
          /\ (pc'[c] = "done") => ~sockOpen'[c]
          /\ (c \in sessions' \ sessions) => pc[c] = "register"
          /\ (pc'[c] = "register" /\ Moves(c)) =>
                pc[c] = "verify" /\ presented[c] = stored
      ]_vars

\* a rejected connection: auth_fail "invalid token" was just written, the
\* handler is in its finally block and the registry does not hold it
C1_Witness ==
    \E c \in Conns :
        /\ Wrote(c, AuthFailMsg("invalid token"))
        /\ pc[c] = "finRemove"
        /\ presented[c] = NoToken
        /\ c \notin sessions
        /\ \E d \in Conns : d \in sessions

\* a rotation has run to completion and none is running
RotationDone == mainPc = "idle" /\ rotations > 0

\* connection c passed verifyToken with a token that is no longer the
\* stored one, and its handler has not left command mode
Stale(c) == pc[c] \in InCommandMode /\ presented[c] # stored

\* C2: once a token rotation has completed, no connection that
\* authenticated with the pre-rotation token is still open (so none can
\* have a further Cmd dispatched), whatever the interleaving of the
\* rotation with the connection handlers.
C2_RotationClosesStaleSessions ==
    RotationDone => \A c \in Conns : Stale(c) => ~sockOpen[c]

\* C3: when the rotation operation returns, every session that was
\* registered when it started has its connection closed and the registry
\* is empty.
C3_RotationClosesRegistered ==
    [][(mainPc = "rotClear" /\ mainPc' = "idle") =>
          /\ sessions' = {}
          /\ \A c \in rotSnap : ~sockOpen'[c]
      ]_vars

\* the states of the per-connection state machine, in order
Phase(p) ==
    IF p = "idle" THEN 0
    ELSE IF p = "hello" THEN 1
    ELSE IF p \in {"readAuth", "verify"} THEN 2
    ELSE IF p \in InCommandMode THEN 3
    ELSE 4

\* C4: a connection's handler moves through Connected (1), Authenticating
\* (2), Authenticated (3), Closed (4) in this order, entering each of the
\* first three only from the one before it and Authenticated only by
\* verifyToken accepting the presented token; a Cmd is parsed, a handler
\* run and a Result written only for a connection that is Authenticated.
C4_StateMachineOrder ==
    [][\A c \in Conns :
          /\ (pc'[c] # pc[c]) =>
                /\ Phase(pc'[c]) >= Phase(pc[c])
                /\ (Phase(pc'[c]) \in 1..3 /\ Phase(pc'[c]) # Phase(pc[c])) =>
                      Phase(pc[c]) = Phase(pc'[c]) - 1
                /\ (pc'[c] \in InCommandMode /\ pc[c] \notin InCommandMode) =>
                      pc[c] = "verify" /\ verifyToken(presented[c], stored)
          /\ (cur'[c] # NoCmd) => pc'[c] \in InCommandMode
          /\ (out' # <<>> /\ out'[1][1] = c /\ out'[1][2].type = "result") =>
                pc[c] \in InCommandMode /\ pc'[c] \in InCommandMode
          /\ (ran' # {} /\ Moves(c)) => pc[c] \in InCommandMode
      ]_vars

\* a handler ran for a Cmd of an authenticated connection while another
\* connection is still authenticating
C4_Witness ==
    \E c, d \in Conns :
        /\ ran # {}
        /\ out # <<>> /\ out[1][1] = c /\ out[1][2].type = "result"
        /\ pc[c] = "loop"
        /\ presented[c] = stored
        /\ pc[d] \in {"readAuth", "verify"}

\* ---- the handshake on the wire (SpecWire) --------------------------------
Hello == <<"agent", "hello">>
Auth == <<"client", "auth">>
AuthOk == <<"agent", "auth_ok">>
AuthFail == <<"agent", "auth_fail">>
HandshakeTypes == {"hello", "auth", "auth_ok", "auth_fail"}

\* C5: on the connection of the CLI client nothing is on the wire before
\* the agent's handler has written its Hello, which is the first line; the
\* second is the client's Auth, the third the agent's AuthOk or
\* AuthFail, and no handshake line follows; the agent's handler is in
\* command mode only after its AuthOk; after AuthFail nothing more is
\* written and the handler only runs its finally block, which ends with
\* the socket closed.
C5_HandshakeOrder ==
    /\ pc[cConn] \in {"idle", "hello"} => wire = <<>>
    /\ Len(wire) >= 1 => wire[1] = Hello
    /\ Len(wire) >= 2 => wire[2] = Auth
    /\ Len(wire) >= 3 => wire[3] \in {AuthOk, AuthFail}
    /\ \A i \in 4..Len(wire) : wire[i][2] \notin HandshakeTypes
    /\ (Len(wire) >= 3 /\ wire[3] = AuthFail) =>
          /\ Len(wire) = 3
          /\ pc[cConn] \in InFinally
          /\ cConn \notin sessions
    /\ pc[cConn] \in InCommandMode => (Len(wire) >= 3 /\ wire[3] = AuthOk)
    /\ pc[cConn] = "done" => ~sockOpen[cConn]

\* the client presented a token that is not the stored one, was answered
\* with AuthFail, and the agent has closed the connection
C5_Witness ==
    /\ wire = <<Hello, Auth, AuthFail>>
    /\ devTok = BadToken
    /\ cpc = "failed"
    /\ pc[cConn] = "done"
    /\ ~sockOpen[cConn]

\* ---- the command loop (SpecCmd) ------------------------------------------
\* the latest step wrote a Result line on connection c
WroteResult(c) ==
    /\ Len(out) = 1
    /\ out[1][1] = c
    /\ out[1][2].type = "result"

\* C6: a Cmd is parsed only by a handler waiting in the command loop; the
\* handler's next step writes exactly one Result, carrying the Cmd's id,
\* and only then is the handler back at the read; no Result is written by
\* any other step.
C6_OneResultPerCmd ==
    [][\A c \in Conns :
          /\ (pc[c] = "dispatch" /\ Moves(c)) =>
                /\ Len(out') = 1
                /\ out'[1][1] = c
                /\ out'[1][2].type = "result"
                /\ out'[1][2].id = cur[c].id
                /\ pc'[c] = "loop"
          /\ (Len(out') >= 1 /\ out'[1][1] = c /\ out'[1][2].type = "result") =>
                pc[c] = "dispatch" /\ Len(out') = 1
          /\ (pc'[c] = "dispatch" /\ Moves(c)) =>
                /\ pc[c] = "loop"
                /\ sockOpen[c]
                /\ msgType(cur'[c]) = "cmd"
                /\ out' = <<>>
      ]_vars

\* the Cmd with id 2 has just been answered with a Result carrying id 2
C6_Witness ==
    \E c \in Conns :
        /\ WroteResult(c)
        /\ out[1][2].id = 2
        /\ out[1][2].ok
        /\ pc[c] = "loop"
        /\ cur[c] = NoCmd

\* ---- Client.Run (SpecWire) -----------------------------------------------
\* C7: a Result returned by Client.Run carries the id of the Cmd that this
\* Run call sent.
C7_RunResultMatchesCmd ==
    cRet.err = "none" => cRet.result.id = cRet.sent

\* ---- CommandRouter.dispatch (SpecCmd) ------------------------------------
\* the error string e contains the command name n
Names(e, n) == \E i \in DOMAIN e : e[i] = n

\* C8: dispatching a Cmd whose name is not registered writes a Result with
\* ok = false, the Cmd's id and an error naming the command; no handler
\* runs, nothing is thrown, the handler stays in the command loop.
C8_UnknownCommand ==
    [][\A c \in Conns :
          (pc[c] = "dispatch" /\ Moves(c) /\ cur[c].cmd \notin Registered) =>
              /\ ~RouterDispatch(cur[c], "throw").threw
              /\ Len(out') = 1
              /\ out'[1][1] = c
              /\ out'[1][2].type = "result"
              /\ ~out'[1][2].ok
              /\ out'[1][2].id = cur[c].id
              /\ Names(out'[1][2].error, cur[c].cmd)
              /\ ran' = {}
              /\ pc'[c] = "loop"
      ]_vars

\* the unregistered command "frobnicate" has just been answered
C8_Witness ==
    \E c \in Conns :
        /\ WroteResult(c)
        /\ ~out[1][2].ok
        /\ Names(out[1][2].error, "frobnicate")
        /\ ran = {}
        /\ pc[c] = "loop"

\* the step is connection c's dispatch of a Cmd whose handler ended as o
HandlerEnded(c, o) ==
    /\ pc[c] = "dispatch"
    /\ Moves(c)
    /\ \E n \in Registered : <<n, o>> \in ran'

\* the step leaves connection c in the command loop, as open and as
\* registered as it was, with nothing left of the Cmd
StaysInCommandMode(c) ==
    /\ pc'[c] = "loop"
    /\ cur'[c] = NoCmd
    /\ sockOpen'[c] = sockOpen[c]
    /\ (c \in sessions') = (c \in sessions)
    /\ presented'[c] = presented[c]

\* C9: when a handler throws, the step still writes one Result with
\* ok = false and the Cmd's id, and leaves the connection in the command
\* loop, neither closed nor removed from the registry, ready for the next
\* Cmd.
C9_HandlerException ==
    [][\A c \in Conns :
          HandlerEnded(c, "throw") =>
              /\ Len(out') = 1
              /\ out'[1] = <<c, resultErr(cur[c].id, out'[1][2].error)>>
              /\ StaysInCommandMode(c)
      ]_vars

\* a handler has just thrown on an open, registered connection
C9_Witness ==
    \E c \in Conns :
        /\ ran = {<<"ls", "throw">>}
        /\ WroteResult(c)
        /\ ~out[1][2].ok
        /\ pc[c] = "loop"
        /\ sockOpen[c]
        /\ c \in sessions

\* C10: when a handler returns a Result with ok = false, the step writes
\* that Result and leaves the connection in the command loop, neither
\* closed nor removed from the registry, ready for the next Cmd.
C10_ApplicationFailure ==
    [][\A c \in Conns :
          HandlerEnded(c, "fail") =>
              /\ out' = <<<<c, Handler(cur[c], "fail")>>>>
              /\ ~out'[1][2].ok
              /\ StaysInCommandMode(c)
      ]_vars

\* a handler has just reported a failure on an open, registered connection
C10_Witness ==
    \E c \in Conns :
        /\ ran = {<<"ls", "fail">>}
        /\ Wrote(c, resultErr(2, <<"path does not exist">>))
        /\ pc[c] = "loop"
        /\ sockOpen[c]
        /\ c \in sessions

\* ---- Client.Close (SpecWire) ---------------------------------------------
\* C11: every call of Close leaves the connection closed; a call on a
\* connection that is already closed changes nothing the caller, the wire
\* or the agent can see, so two or more calls have the effect of one.
C11_CloseIdempotent ==
    [][(closes' # closes) =>
          /\ cpc' = "closed"
          /\ (closes >= 1) =>
                /\ cpc = "closed"
                /\ UNCHANGED <<inq, a2c, wire, cSentId, cNextId, cRet,
                               agentVars, envVars>>
      ]_vars

\* Close has been called twice and the agent has seen the end of the stream
C11_Witness ==
    /\ closes = 2
    /\ cpc = "closed"
    /\ pc[cConn] = "done"

\* ---- the orchestrator ------------------------------------------------------
\* C12: one invocation calls the language model at most 3 times and runs
\* at most 3 rounds, whatever the replies are: once three calls have been
\* made no further call is pending, the loop has ended.
C12_AtMostThreeRounds ==
    /\ nCalls <= Rounds
    /\ round <= Rounds
    /\ (apc = "call") => (nCalls < Rounds /\ round = nCalls)

\* every one of the three replies asked for a screenshot and got one
C12_Witness ==
    /\ apc = "persist"
    /\ nCalls = Rounds
    /\ round = Rounds
    /\ Len(callMessages) = Len(history) + 1 + 2 * Rounds

\* the reply of round k (1-based) of the current invocation, as appended
\* to callMessages: history, userMsg, reply 1, image, reply 2, image, ...
ReplyAt(k) == callMessages[Len(history) + 2 * k].content.id

\* the loop has ended without a failure and the function returns
Returns == apc = "persist" /\ apc' = "idle"

\* the last entry of the file f is the turn (r, n)
LastSaved(f, r, n) ==
    /\ f.st = "ok"
    /\ Len(f.msgs) >= 1
    /\ f.msgs[Len(f.msgs)] = contextSavedMsg(r, n)

NoImage(f) == \A i \in DOMAIN f.msgs : f.msgs[i].content # ImageData

\* C13: when the first reply is the single screenshot action and the
\* second reply holds no screenshot action, the model was called exactly
\* twice and the assistant turn persisted for the invocation is the
\* second reply's text, the persisted history holding no image block.
C13_OneVisionRound ==
    [][(Returns /\ ~noContext /\ nCalls >= 2
          /\ ReplyAt(1) = ShotText /\ ReplyAt(2) # ShotText) =>
          /\ nCalls = 2
          /\ LastSaved(file', "assistant", ReplyAt(2))
          /\ file' # file
          /\ NoImage(file')
      ]_vars

\* the last n elements of s, all of s when it is shorter
Suffix(s, n) == IF Len(s) > n THEN SubSeq(s, Len(s) - n + 1, Len(s)) ELSE s

\* the entries a file holds (none when absent or unreadable)
Entries(f) == IF f.st = "ok" THEN f.msgs ELSE <<>>

\* the history at the start, the user turn and an assistant turn holding
\* the text of the last reply, as entries of the file
Exchange ==
    Entries(file) \o <<contextSavedMsg("user", userMsg.content.id),
                       contextSavedMsg("assistant", ReplyAt(nCalls))>>

\* C14: when an invocation with context enabled returns without a failed
\* model call, the file holds the last 40 entries of the history loaded
\* at the start, the user turn and an assistant turn with the final text.
C14_PersistedHistory ==
    [][(Returns /\ ~noContext) =>
          file' = SavedFile(Suffix(Exchange, ContextCap))
      ]_vars

\* C15: starting without a context file, after any sequence of
\* invocations and Clears the file never holds more than 40 entries, and
\* an invocation that persists drops only the oldest entries, exactly as
\* many as exceed 40: what it keeps of the old entries is their suffix in
\* the same order, followed by the two new turns.
C15_CapDropsOldest ==
    /\ [](Len(Entries(file)) <= ContextCap)
    /\ [][(Returns /\ ~noContext /\ finalResponse # EmptyText) =>
            LET old == Entries(file)
                new == Entries(file')
                d   == Len(old) + 2 - Len(new)
            IN  /\ Len(new) >= 2
                /\ d = IF Len(old) + 2 > ContextCap
                          THEN Len(old) + 2 - ContextCap ELSE 0
                /\ \A i \in 1..(Len(new) - 2) : new[i] = old[i + d]
                /\ new[Len(new) - 1] = contextSavedMsg("user", userMsg.content.id)
                /\ new[Len(new)] = contextSavedMsg("assistant", finalResponse)
         ]_vars

\* 22 exchanges were persisted after a Clear: the four oldest entries are gone
C15_Witness ==
    /\ ctxRet.op = "clear"
    /\ file.st = "ok"
    /\ Len(file.msgs) = ContextCap
    /\ file.msgs[1] = contextSavedMsg("user", 5)
    /\ file.msgs[ContextCap] = contextSavedMsg("assistant", ContextCap + 4)

\* ---- the context store ----------------------------------------------------
\* the turns as Load returns them from the file f
Loaded(f) == loadContext(f).msgs

\* every turn of msgs holds plain text
AllText(msgs) == \A i \in DOMAIN msgs : msgs[i].content.kind = "text"

C17_ClearThenLoad ==
    [][/\ (ctxRet'.op = "clear") =>
             /\ ctxRet'.err = "none"
             /\ loadContext(file') = [msgs |-> <<>>, err |-> "none"]
             /\ (file.st = "absent") => (file' = file)
       /\ (ctxRet.op = "clear" /\ ctxRet'.op = "load") =>
             /\ ctxRet'.err = "none"
             /\ ctxRet'.msgs = <<>>
      ]_vars

\* Clear has removed a file that held 45 turns
C17_Witness ==
    /\ ctxRet.op = "clear"
    /\ file0.st = "ok"
    /\ Len(file0.msgs) = ContextCap + 5
    /\ file = AbsentFile

\* C18: every entry of the persisted history holds plain text: no image
\* data is ever in the file, and a turn passed to Save with image blocks
\* is persisted as the text placeholder.
C18_PlainTextOnly ==
    /\ NoImage(file)
    /\ (ctxRet.op = "save") =>
          /\ Len(Entries(file)) = Len(ctxRet.msgs)
          /\ \A i \in DOMAIN ctxRet.msgs :
                (ctxRet.msgs[i].content.kind = "blocks") =>
                    (file.msgs[i].content = ScreenshotPlaceholder)

\* Save was given a turn with an image block
C18_Witness ==
    /\ ctxRet.op = "save"
    /\ Len(ctxRet.msgs) = 2
    /\ ctxRet.msgs[2].content = Blocks
    /\ file.msgs[2] = contextSavedMsg("assistant", ScreenshotPlaceholder)

\* C19: Load on an absent file returns the empty history without error;
\* Load on a malformed file returns an error, and an invocation with
\* context enabled that finds the file malformed does not go on as if
\* the history were empty: it calls no model and leaves the file alone.
C19_MalformedSurfaced ==
    /\ loadContext(AbsentFile) = [msgs |-> <<>>, err |-> "none"]
    /\ loadContext(MalformedFile).err # "none"
    /\ (apc # "idle" /\ ~noContext /\ file0 = MalformedFile) =>
          /\ nCalls = 0
          /\ apc # "exec"
          /\ file = file0

\* C20: when a model call fails the invocation returns an error at once,
\* with the context file as it was before the invocation; as long as no
\* new invocation starts, no further model call is made and no further
\* command is sent.
C20_ModelFailureAborts ==
    [][/\ (apc = "call" /\ aiRet' = "error") =>
             /\ apc' = "idle"
             /\ nCalls' = nCalls + 1
             /\ nRuns' = nRuns
             /\ file' = file
             /\ file = file0
       /\ (apc = "call" /\ apc' = "call") => (aiRet' = aiRet /\ nCalls' = nCalls)
       /\ (aiRet = "error" /\ apc' = "idle") =>
             /\ aiRet' = "error"
             /\ nCalls' = nCalls
             /\ nRuns' = nRuns
      ]_vars

\* the third model call failed after two vision rounds had run commands
C20_Witness ==
    /\ aiRet = "error"
    /\ apc = "idle"
    /\ nCalls = Rounds
    /\ nRuns = 2
    /\ file = file0
    /\ file.st = "ok"

\* ---- executeCommands ------------------------------------------------------
\* the indices of the executable lines among the first n lines, in order
ExecutableUpTo(n) ==
    SelectSeq([i \in 1..n |-> i], LAMBDA i : commands[i] \in Executable)

\* the lines the loop has gone past
Passed == IF ci = 0 THEN Len(commands) ELSE ci - 1

\* C21: within a round every executable line of the reply is handed to
\* the transport client, in reply order, whether or not earlier lines of
\* the round failed (transport error or Result ok=false).
C21_BestEffortBatch ==
    /\ sentLog = ExecutableUpTo(Passed)
    /\ Len(results) = Len(sentLog)

\* three commands were sent although the first ended in a transport
\* error and the second in a Result with ok=false
C21_Witness ==
    /\ ci = 0
    /\ commands = <<"cmd", "cmd", "cmd">>
    /\ sentLog = <<1, 2, 3>>
    /\ results[1] = "reading response"
    /\ results[2] = "fail"

\* ---- the fallback path ----------------------------------------------------
\* C22: without a model credential the invocation takes the fallback:
\* the external tool runs exactly once, its lines are executed once, the
\* context store is neither read nor written (no loop position is ever
\* entered, the file stays as it is) and nothing follows the execution,
\* also when a screenshot was taken.
C22_FallbackOnce ==
    /\ [](apiKey = NoKey =>
            /\ apc \in {"idle", "fallback"}
            /\ nCalls = 0
            /\ cliCalls <= 1
            /\ file = file0
            /\ history = <<>>)
    /\ [][(apiKey = NoKey /\ apc = "fallback") =>
            /\ apc' = "idle"
            /\ aiRet' = "ok"
            /\ cliCalls' = 1 /\ cliCalls = 1
            /\ nRuns' = NumCommands(resp)
            /\ file' = file
         ]_vars

\* the fallback has run a screenshot command and returned
C22_Witness ==
    /\ apiKey = NoKey
    /\ apc = "idle"
    /\ aiRet = "ok"
    /\ resp = ShotText
    /\ nRuns = 1
    /\ cliCalls = 1
    /\ file.st = "ok"

\* ---- the tokenizer --------------------------------------------------------
\* the tokens a line written from the items its stands for
Texts(its) == [i \in DOMAIN its |-> its[i].text]

\* the tokens of ts at the indices in P, in order
Picked(ts, P) ==
    [k \in 1..Cardinality(P) |->
        ts[CHOOSE i \in P : Cardinality({j \in P : j <= i}) = k]]

FlagAt(ts, i) == HasDashes(ts[i])
ValueAt(ts, i) == i > 1 /\ FlagAt(ts, i - 1) /\ ~FlagAt(ts, i)

\* every token that is neither a flag nor the value of one, in order
Positional(ts) ==
    Picked(ts, {i \in DOMAIN ts : ~FlagAt(ts, i) /\ ~ValueAt(ts, i)})

\* the value recorded for the flag at index i
FlagValue(ts, i) ==
    IF i + 1 <= Len(ts) /\ ValueAt(ts, i + 1) THEN ts[i + 1] ELSE TrueString

\* one entry per flag name, from the last token with this name
FlagMap(ts) ==
    LET F == {i \in DOMAIN ts : FlagAt(ts, i)}
    IN  [k \in {TrimDashes(ts[i]) : i \in F} |->
            LET last == CHOOSE i \in F :
                            /\ TrimDashes(ts[i]) = k
                            /\ \A j \in F : TrimDashes(ts[j]) = k => j <= i
            IN  FlagValue(ts, last)]

FullLine == rawCmd = Joined(<<Psh, Open>> \o args0)

\* C23: a line is split on its unquoted spaces, each quoted span being
\* kept as one token; of the tokens after the command name each one
\* starting with "--" is a flag whose value is the next token unless that
\* is a flag too ("true" then), the others are positional in order.
C23_Tokenizer ==
    (FullLine /\ tpc # "line") =>
        /\ parts = Texts(<<Psh, Open>> \o args0)
        /\ (tpc = "msg") =>
              /\ pureArgs = Positional(Texts(args0))
              /\ flags = FlagMap(Texts(args0))

\* ---- pairing --------------------------------------------------------------
Missing(o) == ~o.present \/ o.v = ""

\* the descriptor is a psh://pair one
PairScheme == pairURL.scheme = "psh" /\ pairURL.host = "pair"

\* C24: a descriptor without host or without token is a parse error and
\* yields no device; otherwise the device has the given host and token,
\* port 8765 when no port is given and the given integer otherwise, and
\* the host as its name when no name is given.
C24_ParsePairURL ==
    (pairRet # NotCalled /\ PairScheme) =>
        LET q == pairURL.query
            d == pairRet.dev
        IN  IF Missing(q.host) \/ Missing(q.token)
               THEN pairRet.err # "none" /\ d = NoDevice
               ELSE /\ (~q.port.present) =>
                          /\ pairRet.err = "none"
                          /\ d.port = 8765
                    /\ (q.port = Given(<<"9", "0", "0", "0">>)) =>
                          /\ pairRet.err = "none"
                          /\ d.port = 9000
                    /\ (q.port = Given(<<"8", "0">>)) =>
                          /\ pairRet.err = "none"
                          /\ d.port = 80
                    /\ (pairRet.err = "none") =>
                          /\ d.host = q.host.v
                          /\ d.token = q.token.v
                          /\ d.name = IF q.name.present /\ q.name.v # ""
                                         THEN q.name.v ELSE q.host.v

\* the worked example: host, token and name given, no port
C24_Witness ==
    /\ pairURL = PairURL("psh", "pair",
                         [host |-> Given("10.0.0.5"), port |-> NoDigits,
                          token |-> Given("abc123"), name |-> Given("Pixel")])
    /\ pairRet = [dev |-> [name |-> "Pixel", host |-> "10.0.0.5",
                           port |-> 8765, token |-> "abc123"],
                  err |-> "none"]

\* ---- the wire format ------------------------------------------------------
\* the Cmd a Go value stands for: nil args or flags are no args, no
\* flags; an empty payload is no payload
SameList(k, g) == k = KtOf(g.elems)
SamePayload(k, p) == IF p = "" THEN k = KtNull ELSE k = KtOf(p)

\* C25: a Cmd serialized to a wire line and deserialized from it is
\* equal to the original: same id and name, same args in order, same
\* flags, same payload, also when args, flags or payload are empty or
\* absent.
C25_CmdRoundTrip ==
    (ktCmd # NoKtCmd) =>
        /\ ktCmd.type = KtOf("cmd")
        /\ ktCmd.id = KtOf(goCmd.id)
        /\ ktCmd.cmd = KtOf(goCmd.cmd)
        /\ SameList(ktCmd.args, goCmd.args)
        /\ SameList(ktCmd.flags, goCmd.flags)
        /\ SamePayload(ktCmd.payload, goCmd.payload)

\* ---- the accept loop ------------------------------------------------------
\* C26: when the accept loop fails while the agent is running, the agent
\* goes on: the loop is restarted after the delay, and once the fault is
\* gone the agent is back in accept(), taking new connections.
C26_AcceptLoopResumes ==
    (srvPc = "delay") ~> (srvPc = "accept")

\* the handler of connection c is waiting in readLine() or runs a handler
Blocked(c) == pc[c] \in {"readAuth", "loop", "dispatch"}

\* the latest step wrote the Result of Cmd i on connection c
ResultWritten(c, i) ==
    /\ Len(out) = 1
    /\ out[1][1] = c
    /\ out[1][2].type = "result"
    /\ out[1][2].id = i

\* C27: while the handler of one connection is blocked, waiting for its
\* peer's next line or inside a command handler, the accept loop still
\* accepts the next connection, and a Cmd read on another connection still
\* gets its Result.
C27_SessionsIndependent ==
    /\ (Blocked(1) /\ pc[2] = "idle") ~> (pc[2] # "idle")
    /\ \A i \in CmdIds :
          (Blocked(1) /\ pc[2] = "dispatch" /\ cur[2].id = i)
              ~> ResultWritten(2, i)

C27_Witness ==
    /\ Blocked(1)
    /\ 1 \in sessions
    /\ 2 \in sessions
    /\ ResultWritten(2, 1)

\* the step is verifyToken's read of the stored secret, by thread t
VerificationRead(t) == kpc[t] = "verRead" /\ kpc'[t] = "verReturn"

\* C28: every read of the secret made for token verification happens while
\* the reader holds the monitor that guards the writes, and every write of
\* the secret is made by the token rotation.
C28_SecretSynchronized ==
    [][/\ \A t \in Conns : VerificationRead(t) => monitor = t
       /\ stored' # stored => kpc[MainThread] = "rotCommit"]_vars

\* ---- stray lines (SpecScript) ---------------------------------------------
\* the step is a readLine() of connection c's handler returning the next
\* line its peer wrote, Head(inq)
ReadsLine(c) == c = cConn /\ inq # <<>> /\ inq' = Tail(inq)

\* C29: when the first line read in the handshake is not valid JSON or is of
\* another type than auth, the handler answers auth_fail "expected auth
\* message" and goes to its finally block without a token to compare; from
\* there it only unregisters and closes, so no token is compared and no
\* session is registered.
C29_NotAuthRejected ==
    [][\A c \in Conns :
          /\ (pc[c] = "readAuth" /\ ReadsLine(c) /\ msgType(Head(inq)) # "auth") =>
                /\ out' = <<<<c, AuthFailMsg("expected auth message")>>>>
                /\ pc'[c] = "finRemove"
                /\ presented'[c] = NoToken
                /\ c \notin sessions'
          /\ (pc[c] \in InFinally) =>
                /\ pc'[c] \in InFinally
                /\ c \notin sessions' \ sessions
          /\ (pc'[c] = "done") => ~sockOpen'[c]
      ]_vars

\* the first line was no auth message: after hello the agent wrote auth_fail
\* and nothing else, the handler has returned, the socket is closed and the
\* registry is empty
C29_Witness ==
    /\ pc[1] = "done"
    /\ ~sockOpen[1]
    /\ sessions = {}
    /\ a2c = <<HelloMsg, AuthFailMsg("expected auth message")>>
    /\ Len(inq) = MaxLines - 1

\* C30: in command mode a line that is not valid JSON or is of another type
\* than cmd is skipped: the step writes nothing and runs no handler, the
\* handler stays in its loop with the socket open and the session
\* registered; a well-formed cmd line read in the loop, after such a line as
\* well, is handed to the dispatch.
C30_StrayLineSkipped ==
    [][\A c \in Conns :
          /\ (pc[c] = "loop" /\ ReadsLine(c) /\ msgType(Head(inq)) # "cmd") =>
                /\ out' = <<>>
                /\ ran' = {}
                /\ pc'[c] = "loop"
                /\ cur'[c] = NoCmd
                /\ sockOpen'[c] /\ sockOpen[c]
                /\ c \in sessions' /\ c \in sessions
          /\ (pc[c] = "loop" /\ ReadsLine(c) /\ Head(inq) \in {CmdLine(i, n) : i \in CmdIds, n \in CmdNames}) =>
                /\ pc'[c] = "dispatch"
                /\ cur'[c] = Head(inq)
      ]_vars

\* all lines of the peer are read, the last one a Cmd whose Result was just
\* written; the agent wrote hello, auth_ok and this one Result, so a line
\* in between was skipped; the session is open and registered
C30_Witness ==
    /\ MaxLines > 2
    /\ inq = <<>>
    /\ a2c = <<HelloMsg, AuthOkMsg, resultOk(1)>>
    /\ Wrote(1, resultOk(1))
    /\ pc[1] = "loop"
    /\ sockOpen[1]
    /\ 1 \in sessions

\* ---- Connect (SpecConnect) -----------------------------------------------
\* the client has just written a line of kind k
ClientWrote(k) ==
    /\ Len(wire') = Len(wire) + 1
    /\ wire'[Len(wire')] = <<"client", k>>

\* the next line from the server is there and is of type t
NextIs(t) == a2c # <<>> /\ Head(a2c).type = t

\* C31: Connect returns a Client only when the dial succeeded, the first
\* line read was a hello and the answer to the auth was auth_ok; a handshake
\* step that finds anything else (no line, a line that does not parse, a line
\* of another type, auth_fail) ends in the failure return, with the
\* connection closed; a Cmd is written only by a Client that Connect
\* returned.
C31_ConnectOnlyAfterAuthOk ==
    [][/\ (cpc' = "hsHello" /\ cpc # "hsHello") => cpc = "init"
       /\ (cpc' = "hsResp" /\ cpc # "hsResp") =>
             cpc = "hsHello" /\ NextIs("hello") /\ ClientWrote("auth")
       /\ (cpc' = "ready" /\ cpc \notin {"ready", "runRead"}) =>
             cpc = "hsResp" /\ NextIs("auth_ok")
       /\ (cpc = "hsHello" /\ cpc' # cpc /\ ~NextIs("hello")) => cpc' = "failed"
       /\ (cpc = "hsResp" /\ cpc' # cpc /\ ~NextIs("auth_ok")) => cpc' = "failed"
       /\ cpc \in {"failed", "unreachable"} => cpc' = cpc /\ wire' = wire
       /\ ClientWrote("cmd") => cpc = "ready"
      ]_vars

\* the hello was read and the auth written, but no auth_ok came back (another
\* line, or none in time): Connect has failed, having written nothing else
C31_Witness ==
    /\ cpc = "failed"
    /\ wire = <<<<"client", "auth">>>>
    /\ a2c = <<resultOk(1)>>

\* ---- the registry and the handlers' end (SpecLifecycle) ------------------
\* between sessions[sessionId] = session and sessions.remove(sessionId)
Registrable == {"loop", "dispatch", "finRemove"}

\* C32: a session is in the registry only between its registration after a
\* successful authentication and its handler's finally block; a handler
\* that has ended, for whatever reason, has its id out of the registry and
\* its socket closed.
C32_RegistryOnlyWhileRunning ==
    \A c \in Conns :
        /\ c \in sessions => pc[c] \in Registrable
        /\ pc[c] = "done" => c \notin sessions /\ ~sockOpen[c]

\* the service was destroyed: the handler of connection 1 has ended, its
\* socket is closed and its id is out of the registry, while the handler of
\* connection 2 has not reached its finally block's remove and is registered
C32_Witness ==
    /\ ~scopeActive
    /\ mainPc = "destroyed"
    /\ pc[1] = "done"
    /\ pc[2] \in Registrable
    /\ 2 \in sessions
    /\ ~sockOpen[1]

\* ---- rounds of the loop (SpecAI) -----------------------------------------
\* the step is the execution of the actions of a round's reply
RoundEnds == apc = "exec" /\ apc' # "exec"

\* C33: a round is followed by another model call exactly when its reply
\* held the screen-capture action, which was therefore executed, and fewer
\* than 3 rounds have run; a round whose reply held no screen-capture action
\* ends the loop with that reply as the final response.
C33_NextRoundIffCapture ==
    [][RoundEnds =>
          /\ (apc' = "call") <=> (resp = ShotText /\ round + 1 < Rounds)
          /\ resp # ShotText => apc' = "persist" /\ finalResponse' = resp
      ]_vars

\* ---- --no-context (SpecAI) -----------------------------------------------
\* the user turns of the request that are plain text
TextUserTurns ==
    {i \in 1..Len(callMessages) :
        callMessages[i].role = "user" /\ callMessages[i].content # Blocks}

\* C34: in an invocation with the context disabled the request starts with
\* the new user turn, which is its only plain-text user turn (the others are
\* the image turns of this invocation), no history is loaded, and no step of
\* the invocation, however it ends, changes the context file.
C34_NoContextUntouched ==
    [][(noContext' /\ apc' # "idle") \/ (noContext /\ apc # "idle") =>
          /\ file' = file
          /\ history' = <<>>
          /\ apc' # "idle" =>
                /\ callMessages'[1] = userMsg'
                /\ TextUserTurns' = {1}
      ]_vars

\* an invocation with the context disabled has returned after a vision
\* round and a final reply, and the context file, which held turns before,
\* is as it was
C34_Witness ==
    /\ noContext
    /\ apc = "idle"
    /\ aiRet = "ok"
    /\ round = 1
    /\ finalResponse # EmptyText
    /\ file = file0
    /\ Len(file.msgs) > 0

\* ---- the registry and rotation (Spec) ------------------------------------
\* C35: every connection whose handler is in its command loop with the
\* socket open is in the session registry, whatever the interleaving of the
\* handlers with the rotation's close-all and clear steps.
C35_OpenSessionsRegistered ==
    \A c \in Conns :
        (pc[c] \in {"loop", "dispatch"} /\ sockOpen[c]) => c \in sessions

\* ---- notifications (SpecScript) -------------------------------------------
\* the handler of connection c has registered, and so has emitted the
\* client-connected notification: the lines written to its peer hold auth_ok
\* and the registering step, which follows at once, is done
WasConnected(c) ==
    /\ c = cConn
    /\ pc[c] # "register"
    /\ \E i \in 1..Len(a2c) : a2c[i] = AuthOkMsg

\* C36: for every connection the client-disconnected notification is
\* emitted only after its client-connected notification, and every
\* command-executed notification after the client-connected and before the
\* client-disconnected one; a connection that fails authentication emits no
\* client-disconnected notification.
C36_NotificationsOrdered ==
    [][\A c \in Conns :
          /\ EmitsDisconnected(c) => WasConnected(c)
          /\ EmitsCommand(c) => WasConnected(c) /\ pc[c] \notin InFinally
          /\ EmitsConnected(c) => ~WasConnected(c)
      ]_vars

\* ---- persisted turns are kept (SpecDamaged) -------------------------------
\* the invocation returns, after the persist step or on a failed model call
InvocationEnds == apc # "idle" /\ apc' = "idle"

\* the user turn and the final assistant turn, as entries of the file
NewPair ==
    <<contextSavedMsg("user", userMsg.content.id),
      contextSavedMsg("assistant", finalResponse)>>

\* C37: an invocation leaves the persisted history unchanged, or leaves the
\* turns that were in the file followed by the new user/assistant pair, cut
\* to the last 40: nothing but the oldest turns beyond the cap is ever
\* dropped, also when the file found at the start did not parse.
C37_TurnsNeverDiscarded ==
    [][InvocationEnds =>
          \/ file' = file
          \/ file' = SavedFile(Suffix(file.msgs \o NewPair, ContextCap))
      ]_vars

\* ---- one accept loop (SpecStarts) ------------------------------------------
\* the runServer coroutines that wait in accept() or for their next attempt
\* to bind
LoopsAlive ==
    {k \in Starts : launched[k] \in {"accept", "delay"}}
        \cup (IF srvPc \in {"accept", "delay"} THEN {0} ELSE {})

\* C38: whatever start requests and restarts have happened, at most one
\* accept loop is running or retrying, so the loops waiting to restart do
\* not grow with the number of start requests.
C38_OneAcceptLoop == Cardinality(LoopsAlive) <= 1

\* ---- the device registry stays consistent (SpecConfig) ---------------------
\* C39: after any sequence of AddOrUpdateDevice calls on an empty registry
\* no two entries have the same name and no two entries have the same host.
C39_NoSharedNameOrHost ==
    \A i, j \in DOMAIN cfg.devices :
        i # j => /\ cfg.devices[i].name # cfg.devices[j].name
                 /\ cfg.devices[i].host # cfg.devices[j].host

\* the registry holds a device of this name
Present(n) == \E i \in DOMAIN cfg.devices : cfg.devices[i].name = n

\* C40: after any sequence of AddOrUpdateDevice calls on an empty registry,
\* a registry that is not empty has a default_device that names one of its
\* devices, and GetDevice("") returns a device.
C40_DefaultDevicePresent ==
    cfg.devices # <<>> =>
        /\ Present(cfg.default_device)
        /\ GetDevice(cfg, "").err = "none"
        /\ getRet # NotCalled => getRet.err = "none"

====
